---------------------------- MODULE Spec2Model ----------------------------
(***************************************************************************)
(* Model of the TDS session engine of pytds (src/pytds/tds.py).            *)
(*                                                                         *)
(* Fifteen specifications share the variables below:                       *)
(*   SpecWriter        _TdsWriter at byte level (begin_packet/write/flush) *)
(*   SpecReader        _TdsReader at byte level (recv / read_fast /        *)
(*                     _read_packet)                                       *)
(*   Spec              _TdsSession at token level (submits, token loops,   *)
(*                     cancellation, transport faults)                     *)
(*   SpecSubmit        every submit method and the drain of a response     *)
(*   SpecStateMachine  direct calls of _TdsSession.set_state               *)
(*   SpecRaise         session.messages and raise_db_exception             *)
(*   SpecLogin         _TdsSocket.login: PRELOGIN, LOGIN7, login response  *)
(*   SpecCursor        execute / callproc, fetchone, get_proc_outputs,     *)
(*                     get_proc_return_status                              *)
(*   SpecTran          begin_tran / commit / rollback and the requests of  *)
(*                     a transaction                                       *)
(*   SpecCancel        put_cancel on the session and its writer            *)
(*   SpecCrypt         tds7_crypt_pass                                     *)
(*   SpecLifetime      the packets of a _TdsWriter over its lifetime       *)
(*   SpecBlock         the block sizes of readers and writers (ENVCHANGE   *)
(*                     packet size, login, MARS, create_session)           *)
(*   SpecLogin7        the LOGIN7 payload of tds7_send_login               *)
(*   SpecPrelogin      parse_prelogin over the bytes of the reply          *)
(***************************************************************************)
EXTENDS Integers, Sequences, FiniteSets, TLC

VARIABLES
    writer,     \* _TdsWriter: [buf, pos, packet_no, type, out]
    wlog,       \* observation of the current outbound message: [phase, data, type]
    reader,     \* _TdsReader: [buf, pos, size, have, type, status]
    net,        \* transport seen by the reader: [arrived, pending, closed]
    rlog,       \* observation of the reader: [truth, got, ret, exc, cancel, ...]
    sess,       \* sess[s]: the fields of _TdsSession s
    conn,       \* _TdsSocket: [sock_closed, is_connected, mars, route, ...]
    wire,       \* wire[s]: tokens the server has queued for session s
    last,       \* observation of the last session operation
    dbexc,      \* the messages of a session and what was raised from them
    login       \* _TdsLogin and the progress of _TdsSocket.login; in
                \* SpecCrypt a password and what tds7_crypt_pass made of it

vars ==
    << writer, wlog, reader, net, rlog, sess, conn, wire, last, dbexc, login >>

writerVars == << writer, wlog >>
readerVars == << reader, net, rlog >>
sessionVars == << sess, conn, wire, last >>
raiseVars == << dbexc >>
loginVars == << login >>

Min(a, b) == IF a <= b THEN a ELSE b

\* The element of a one-element set.  Only({ f(x) : x \in {e} }) is f(e) with
\* e evaluated once and its value named x.
Only(S) == CHOOSE x \in S : TRUE

(***************************************************************************)
(* Packet header: struct '>BBHHBx' = type, status, length (u16 big-endian),*)
(* spid (u16 big-endian), packet number, one pad byte.                     *)
(***************************************************************************)
HeaderSize == 8

header_pack(type, status, length, spid, packet_no) ==
    << type, status, length \div 256, length % 256,
       spid \div 256, spid % 256, packet_no, 0 >>

\* _header.unpack_from(buf, 0): (type, status, size, spid, packet_no)
header_unpack(buf) ==
    [ type |-> buf[1], status |-> buf[2], size |-> buf[3] * 256 + buf[4],
      spid |-> buf[5] * 256 + buf[6], packet_no |-> buf[7] ]

(***************************************************************************)
(*                              _TdsWriter                                 *)
(***************************************************************************)
\* Bounds of the writer model
WriterBufSize == 10     \* block size B of the writer (header + 2 payload bytes)
MaxWriteLen == 3        \* longest data of one write call
MaxMessageLen == 5      \* most payload bytes of one logical message
MaxPacketNo == 3        \* begin_packet is not explored past this packet number

PacketTypes == {1, 6, 7}   \* QUERY, CANCEL, BULK

Zeros(n) == [i \in 1..n |-> 0]

\* _TdsWriter.__init__
writer_init(bufsize) ==
    [ buf |-> Zeros(bufsize), pos |-> 0, packet_no |-> 0, type |-> 0, out |-> << >> ]

\* A faulty variant of begin_packet: the packet number restarts with the message.
begin_packet_resets(w, packet_type) ==
    [w EXCEPT !.type = packet_type, !.pos = 8, !.packet_no = 0]

\* _TdsWriter.begin_packet
begin_packet(w, packet_type) ==
    [w EXCEPT !.type = packet_type, !.pos = 8]

\* A faulty variant of _write_packet: the final flag is dropped from the header.
write_packet_no_final(w, final) ==
    LET hdr == header_pack(w.type, 0, w.pos, 0, w.packet_no)
        buf2 == [i \in 1..Len(w.buf) |-> IF i <= HeaderSize THEN hdr[i] ELSE w.buf[i]]
    IN  [w EXCEPT !.buf = buf2,
                  !.packet_no = (w.packet_no + 1) % 256,
                  !.out = Append(w.out, SubSeq(buf2, 1, w.pos)),
                  !.pos = 8]

\* A faulty variant of _write_packet: the packet number is not reduced mod 256.
write_packet_no_wrap(w, final) ==
    LET status == IF final THEN 1 ELSE 0
        hdr == header_pack(w.type, status, w.pos, 0, w.packet_no)
        buf2 == [i \in 1..Len(w.buf) |-> IF i <= HeaderSize THEN hdr[i] ELSE w.buf[i]]
    IN  [w EXCEPT !.buf = buf2,
                  !.packet_no = w.packet_no + 1,
                  !.out = Append(w.out, SubSeq(buf2, 1, w.pos)),
                  !.pos = 8]

\* A faulty variant of _write_packet: the length field counts the payload only.
write_packet_payload_length(w, final) ==
    LET status == IF final THEN 1 ELSE 0
        hdr == header_pack(w.type, status, w.pos - HeaderSize, 0, w.packet_no)
        buf2 == [i \in 1..Len(w.buf) |-> IF i <= HeaderSize THEN hdr[i] ELSE w.buf[i]]
    IN  [w EXCEPT !.buf = buf2,
                  !.packet_no = (w.packet_no + 1) % 256,
                  !.out = Append(w.out, SubSeq(buf2, 1, w.pos)),
                  !.pos = 8]

\* _TdsWriter._write_packet: pack the header into buf[0:8], bump packet_no,
\* sendall(buf[:pos]), pos = 8.
write_packet(w, final) ==
    LET status == IF final THEN 1 ELSE 0
        hdr == header_pack(w.type, status, w.pos, 0, w.packet_no)
        buf2 == [i \in 1..Len(w.buf) |-> IF i <= HeaderSize THEN hdr[i] ELSE w.buf[i]]
    IN  [w EXCEPT !.buf = buf2,
                  !.packet_no = (w.packet_no + 1) % 256,
                  !.out = Append(w.out, SubSeq(buf2, 1, w.pos)),
                  !.pos = 8]

\* _TdsWriter.write: the while loop over data_off
RECURSIVE write_loop(_, _, _)
write_loop(w, data, data_off) ==
    IF data_off >= Len(data) THEN w
    ELSE LET left == Len(w.buf) - w.pos IN
         IF left <= 0
         THEN write_loop(write_packet(w, FALSE), data, data_off)
         ELSE LET to_write == Min(left, Len(data) - data_off)
                  buf2 == [i \in 1..Len(w.buf) |->
                             IF i > w.pos /\ i <= w.pos + to_write
                             THEN data[data_off + (i - w.pos)]
                             ELSE w.buf[i]]
              IN  write_loop([w EXCEPT !.buf = buf2, !.pos = w.pos + to_write],
                             data, data_off + to_write)

write(w, data) == write_loop(w, data, 0)

\* _TdsWriter.flush
flush(w) == write_packet(w, TRUE)

\* The data of the next write call: n fresh bytes, numbered after the bytes
\* already written in this message so that loss, repetition and reordering show.
NextData(n) == [i \in 1..n |-> 100 + Len(wlog.data) + i]

WriterInit ==
    /\ writer = writer_init(WriterBufSize)
    /\ wlog = [phase |-> "closed", data |-> << >>, type |-> 0]

WBeginPacket ==
    /\ wlog.phase = "closed"
    /\ writer.packet_no < MaxPacketNo
    /\ \E t \in PacketTypes :
          /\ writer' = [begin_packet(writer, t) EXCEPT !.out = << >>]
          /\ wlog' = [phase |-> "open", data |-> << >>, type |-> t]

WWrite ==
    /\ wlog.phase = "open"
    /\ \E n \in 0..MaxWriteLen :
          /\ Len(wlog.data) + n <= MaxMessageLen
          /\ writer' = write(writer, NextData(n))
          /\ wlog' = [wlog EXCEPT !.data = wlog.data \o NextData(n)]

WFlush ==
    /\ wlog.phase = "open"
    /\ writer' = flush(writer)
    /\ wlog' = [wlog EXCEPT !.phase = "closed"]

WriterNext ==
    \/ WBeginPacket /\ UNCHANGED << readerVars, sessionVars, raiseVars, loginVars >>
    \/ WWrite /\ UNCHANGED << readerVars, sessionVars, raiseVars, loginVars >>
    \/ WFlush /\ UNCHANGED << readerVars, sessionVars, raiseVars, loginVars >>

(***************************************************************************)
(*                              _TdsReader                                 *)
(***************************************************************************)
\* Bounds of the reader model
ReaderBufSize == 11     \* block size of the reader (header + 3 payload bytes)
MaxPackets == 2         \* most packets of the inbound message
MaxChunk == 1           \* a transport read returns 1..MaxChunk bytes, or all
MaxRecvSize == 3        \* largest size argument of recv / read_fast
SegmentSize == 3        \* bytes in one segment delivered by the network
MaxFaults == 1          \* calls that end in an exception
MaxCallsAfterFault == 1 \* calls explored after an exception

REPLY == 4
CANCEL == 6

\* _TdsReader.__init__ (type and status None are written -1)
reader_init(bufsize) ==
    [ buf |-> Zeros(bufsize), pos |-> bufsize, have |-> 0, size |-> 0,
      type |-> -1, status |-> -1, spid |-> 0 ]

\* transport.recv_into(bufview[pos:], n) when k bytes are handed over: the
\* bytes land in buf[pos : pos + k] and leave the transport.
recv_into(rd, nt, pos, k) ==
    [ rd |-> [rd EXCEPT !.buf = [i \in 1..Len(rd.buf) |->
                                   IF i > pos /\ i <= pos + k
                                   THEN nt.arrived[i - pos] ELSE rd.buf[i]]],
      nt |-> [nt EXCEPT !.arrived = SubSeq(nt.arrived, k + 1, Len(nt.arrived))] ]

\* What one transport.recv_into call of at most n bytes does when the caller's
\* buffer has room for `room` bytes: "ValueError" when n exceeds the room,
\* "TimeoutError" when nothing has arrived before the socket deadline, 0 bytes
\* when the peer has closed, and otherwise 1..min(n, c, arrived) bytes.
transport_read(nt, n, room, c) ==
    IF n > room THEN [exc |-> "ValueError", k |-> 0]
    ELSE IF Len(nt.arrived) = 0
         THEN IF nt.closed THEN [exc |-> "none", k |-> 0]
                           ELSE [exc |-> "TimeoutError", k |-> 0]
         ELSE [exc |-> "none", k |-> Min(Min(n, c), Len(nt.arrived))]

\* _read_packet, lines 275-279: while pos < _header.size
RECURSIVE header_loop(_, _, _, _)
header_loop(rd, nt, pos, c) ==
    IF pos >= HeaderSize THEN [rd |-> rd, nt |-> nt, pos |-> pos, exc |-> "none"]
    ELSE LET t == transport_read(nt, HeaderSize - pos, Len(rd.buf) - pos, c) IN
         IF t.exc # "none" THEN [rd |-> rd, nt |-> nt, pos |-> pos, exc |-> t.exc]
         ELSE IF t.k = 0
              THEN [rd |-> rd, nt |-> nt, pos |-> pos, exc |-> "ClosedConnectionError"]
              ELSE LET r == recv_into(rd, nt, pos, t.k)
                   IN  header_loop(r.rd, r.nt, pos + t.k, c)

\* _read_packet, lines 286-291: while pos < self._size
RECURSIVE body_loop(_, _, _, _)
body_loop(rd, nt, pos, c) ==
    IF pos >= rd.size THEN [rd |-> rd, nt |-> nt, pos |-> pos, exc |-> "none"]
    ELSE LET room == IF pos >= Len(rd.buf) THEN 0 ELSE Len(rd.buf) - pos
             t == transport_read(nt, rd.size - pos, room, c) IN
         IF t.exc # "none" THEN [rd |-> rd, nt |-> nt, pos |-> pos, exc |-> t.exc]
         ELSE IF t.k = 0
              THEN [rd |-> rd, nt |-> nt, pos |-> pos, exc |-> "ClosedConnectionError"]
              ELSE LET r == recv_into(rd, nt, pos, t.k)
                   IN  body_loop([r.rd EXCEPT !.have = r.rd.have + t.k],
                                 r.nt, pos + t.k, c)

\* A faulty variant of put_cancel_packet: the packet is begun but not flushed.
put_cancel_packet_no_flush(w) == begin_packet(w, CANCEL)

\* _TdsSession.put_cancel as the reader sees it: one empty CANCEL packet on the
\* session's writer, then in_cancel = 1.
put_cancel_packet(w) == flush(begin_packet(w, CANCEL))

\* A faulty variant of _read_packet: the reader's position is left on the header.
read_packet_keep_header(rd, nt, w, c) ==
    LET h == header_loop(rd, nt, 0, c) IN
    IF h.exc # "none"
    THEN [ rd |-> h.rd, nt |-> h.nt, exc |-> h.exc, phase |-> "header",
           w |-> IF h.exc = "TimeoutError" THEN put_cancel_packet(w) ELSE w,
           cancel |-> h.exc = "TimeoutError" ]
    ELSE LET u == header_unpack(h.rd.buf)
             rd2 == [h.rd EXCEPT !.pos = HeaderSize - 1, !.type = u.type,
                                 !.status = u.status, !.size = u.size,
                                 !.spid = u.spid, !.have = h.pos]
             b == body_loop(rd2, h.nt, h.pos, c)
         IN  [ rd |-> b.rd, nt |-> b.nt, exc |-> b.exc, phase |-> "body",
               w |-> w, cancel |-> FALSE ]

\* _TdsReader._read_packet. The try block covers the header loop only: a
\* TimeoutError there calls put_cancel and re-raises; every exception of the
\* body loop propagates as it is.
read_packet(rd, nt, w, c) ==
    LET h == header_loop(rd, nt, 0, c) IN
    IF h.exc # "none"
    THEN [ rd |-> h.rd, nt |-> h.nt, exc |-> h.exc, phase |-> "header",
           w |-> IF h.exc = "TimeoutError" THEN put_cancel_packet(w) ELSE w,
           cancel |-> h.exc = "TimeoutError" ]
    ELSE LET u == header_unpack(h.rd.buf)
             rd2 == [h.rd EXCEPT !.pos = HeaderSize, !.type = u.type,
                                 !.status = u.status, !.size = u.size,
                                 !.spid = u.spid, !.have = h.pos]
             b == body_loop(rd2, h.nt, h.pos, c)
         IN  [ rd |-> b.rd, nt |-> b.nt, exc |-> b.exc, phase |-> "body",
               w |-> w, cancel |-> FALSE ]

\* buf[offset : offset + to_read] with Python's slice rules
Slice(buf, offset, to_read) ==
    LET hi == Min(offset + to_read, Len(buf)) IN
    IF to_read <= 0 \/ offset >= Len(buf) THEN << >>
    ELSE SubSeq(buf, offset + 1, hi)

\* _TdsReader.recv: read a packet when the current one is used up, then
\* return at most `size` bytes of the current packet.
recv(rd, nt, w, size, c) ==
    LET p == IF rd.pos >= rd.size
             THEN read_packet(rd, nt, w, c)
             ELSE [rd |-> rd, nt |-> nt, exc |-> "none", phase |-> "none",
                   w |-> w, cancel |-> FALSE]
    IN  IF p.exc # "none"
        THEN [ rd |-> p.rd, nt |-> p.nt, exc |-> p.exc, phase |-> p.phase,
               w |-> p.w, cancel |-> p.cancel, ret |-> << >> ]
        ELSE LET offset == p.rd.pos
                 to_read == Min(size, p.rd.size - p.rd.pos)
             IN  [ rd |-> [p.rd EXCEPT !.pos = p.rd.pos + to_read],
                   nt |-> p.nt, exc |-> "none", phase |-> p.phase, w |-> p.w,
                   cancel |-> p.cancel,
                   ret |-> Slice(p.rd.buf, offset, to_read) ]

\* _TdsReader.read_fast: as recv, but the caller is handed (buf, offset); ret
\* is the part of buf the call has consumed, buf[offset : offset + to_read].
read_fast(rd, nt, w, size, c) ==
    LET p == IF rd.pos >= rd.size
             THEN read_packet(rd, nt, w, c)
             ELSE [rd |-> rd, nt |-> nt, exc |-> "none", phase |-> "none",
                   w |-> w, cancel |-> FALSE]
    IN  IF p.exc # "none"
        THEN [ rd |-> p.rd, nt |-> p.nt, exc |-> p.exc, phase |-> p.phase,
               w |-> p.w, cancel |-> p.cancel, ret |-> << >> ]
        ELSE LET offset == p.rd.pos
                 to_read == Min(size, p.rd.size - p.rd.pos)
             IN  [ rd |-> [p.rd EXCEPT !.pos = p.rd.pos + to_read],
                   nt |-> p.nt, exc |-> "none", phase |-> p.phase, w |-> p.w,
                   cancel |-> p.cancel,
                   ret |-> Slice(p.rd.buf, offset, to_read) ]

\* An inbound packet: header (type REPLY, final bit on the last packet) and
\* payload bytes that name their packet and their place in it.
Packet(idx, len, isLast) ==
    header_pack(REPLY, IF isLast THEN 1 ELSE 0, HeaderSize + len, 0, idx % 256)
        \o [j \in 1..len |-> 100 + 10 * idx + j]

PayloadOf(idx, len) == [j \in 1..len |-> 100 + 10 * idx + j]

RECURSIVE Flatten(_)
Flatten(seqs) == IF seqs = << >> THEN << >> ELSE Head(seqs) \o Flatten(Tail(seqs))

\* Every fragmentation of a message into 1..MaxPackets packets whose length is
\* at most the reader's block size.
PayloadLens == {0, 1, ReaderBufSize - HeaderSize}

Fragmentations ==
    UNION { [1..k -> PayloadLens] : k \in 1..MaxPackets }

\* The offsets in the server's stream at which a packet begins (the end of the
\* stream included), for packets of the given payload lengths from offset `at`
RECURSIVE PacketStarts(_, _)
PacketStarts(lens, at) ==
    IF lens = << >> THEN {at}
    ELSE {at} \cup PacketStarts(Tail(lens), at + HeaderSize + Head(lens))

ReaderInit ==
    /\ reader = reader_init(ReaderBufSize)
    /\ \E lens \in Fragmentations :
          /\ net = [ arrived |-> << >>, closed |-> FALSE,
                     pending |-> Flatten([i \in 1..Len(lens) |->
                                            Packet(i, lens[i], i = Len(lens))]) ]
          /\ rlog = [ truth |-> Flatten([i \in 1..Len(lens) |-> PayloadOf(i, lens[i])]),
                      got |-> << >>, ret |-> << >>, exc |-> "none", phase |-> "none",
                      cancel |-> FALSE, faults |-> 0, after |-> 0, partial |-> FALSE,
                      starts |-> PacketStarts(lens, 0), consumed |-> 0 ]

ChunkSizes == (1..MaxChunk) \cup {ReaderBufSize}

\* The effect of one recv / read_fast call (result r, transport chunk c) on the
\* model's variables. got collects the bytes handed to the caller; partial
\* records that a packet was read in pieces smaller than its header; consumed
\* counts the bytes the calls have taken from the transport.
RCall(r, c) ==
    /\ rlog.faults + (IF r.exc # "none" THEN 1 ELSE 0) <= MaxFaults
    /\ rlog.faults > 0 => rlog.after < MaxCallsAfterFault
    /\ reader' = r.rd
    /\ net' = r.nt
    /\ writer' = r.w
    /\ rlog' = [rlog EXCEPT !.got = rlog.got \o r.ret,
                            !.ret = r.ret, !.exc = r.exc, !.phase = r.phase,
                            !.cancel = r.cancel,
                            !.faults = rlog.faults + (IF r.exc # "none" THEN 1 ELSE 0),
                            !.after = rlog.after + (IF rlog.faults > 0 THEN 1 ELSE 0),
                            !.partial = rlog.partial
                                          \/ (r.phase = "body" /\ c < HeaderSize),
                            !.consumed = rlog.consumed
                                           + (Len(net.arrived) - Len(r.nt.arrived))]

RRecv ==
    \E size \in 1..MaxRecvSize, c \in ChunkSizes :
        RCall(recv(reader, net, writer, size, c), c)

RReadFast ==
    \E size \in 1..MaxRecvSize, c \in ChunkSizes :
        RCall(read_fast(reader, net, writer, size, c), c)

\* The network hands the next segment of the server's stream, or all the rest
\* of it, to the socket.
NetDeliver ==
    /\ net.pending # << >>
    /\ \E k \in {Min(SegmentSize, Len(net.pending)), Len(net.pending)} :
          net' = [net EXCEPT !.arrived = net.arrived \o SubSeq(net.pending, 1, k),
                             !.pending = SubSeq(net.pending, k + 1, Len(net.pending))]
    /\ UNCHANGED << reader, rlog, writer >>

\* The peer closes the connection: what has not arrived is lost.
NetClose ==
    /\ ~net.closed
    /\ net' = [net EXCEPT !.closed = TRUE, !.pending = << >>]
    /\ UNCHANGED << reader, rlog, writer >>

ReaderNext ==
    \/ RRecv /\ UNCHANGED << wlog, sessionVars, raiseVars, loginVars >>
    \/ RReadFast /\ UNCHANGED << wlog, sessionVars, raiseVars, loginVars >>
    \/ NetDeliver /\ UNCHANGED << wlog, sessionVars, raiseVars, loginVars >>
    \/ NetClose /\ UNCHANGED << wlog, sessionVars, raiseVars, loginVars >>

(***************************************************************************)
(*                    _TdsSession and _TdsSocket (token level)             *)
(*                                                                         *)
(* A response is a sequence of tokens; wire[s] holds the tokens the server *)
(* has queued for session s.  Every operation below is a function from a   *)
(* run record R = [sess, conn, wire, exc, ...] to a run record: exc is the *)
(* exception propagating out of the code ("none" while it runs normally).  *)
(* Each token is taken to arrive in packets of its own, so a token still   *)
(* on the wire has not been read from the transport.                       *)
(***************************************************************************)
\* Bounds of the session model
MaxWire == 4            \* most tokens queued for one session
MaxMessages == 2        \* most records kept in session.messages
MaxFaultAt == 1         \* a fault hits one of the first MaxFaultAt tokens read
MaxOps == 3             \* operations of the application in one run

SessionIds == {"main", "aux"}
States == {"IDLE", "QUERYING", "PENDING", "READING", "DEAD"}

\* The session the application drives: the main session of a plain connection,
\* a second session of a MARS connection (whose main session then stays idle).
Callers(c) == IF c.mars THEN {"aux"} ELSE {"main"}

\* _TdsSocket.route when there is none, and the routes a server can name
NoRoute == [server |-> "", port |-> 0]
Routes == { [server |-> "srv2.example", port |-> p] : p \in {1433, 1500} }

\* A token of a response: its kind, the status flags of a DONE, the msgno of
\* an ERROR or INFO, the route of an ENVCHANGE of type 20 (NoRoute in an
\* ENVCHANGE of another type), a number (the row count of a DONE, the status
\* of a RETURNSTATUS, the ordinal of a RETURNVALUE) and a value (the values of
\* a ROW or NBCROW, the value of a RETURNVALUE).
Tok(k, flags) ==
    [k |-> k, flags |-> flags, msgno |-> 0, route |-> NoRoute, num |-> 0,
     val |-> ""]
Done(flags) == Tok("DONE", flags)
Msg(k, msgno) == [Tok(k, {}) EXCEPT !.msgno = msgno]
EnvChange(route) == [Tok("ENVCHANGE", {}) EXCEPT !.route = route]
LoginAck == Tok("LOGINACK", {})
\* A LOGINACK whose TDS version is below 7.0
LoginAckOld == Tok("LOGINACK", {"PRE_TDS7"})
Junk == Tok("JUNK", {})
Row(k, val) == [Tok(k, {}) EXCEPT !.val = val]
DoneCount(flags, n) == [Done(flags \cup {"COUNT"}) EXCEPT !.num = n]
ReturnStatus(n) == [Tok("RETURNSTATUS", {}) EXCEPT !.num = n]
\* An ENVCHANGE of type BEGINTRANS (with the descriptor of the transaction),
\* COMMITTRANS or ROLLBACKTRANS
EnvTran(type, descriptor) ==
    [Tok("ENVCHANGE", {type}) EXCEPT !.num = descriptor]
ReturnValue(ordinal, val) ==
    [Tok("RETURNVALUE", {}) EXCEPT !.num = ordinal, !.val = val]

\* _TdsSession.__init__
session_init ==
    [ state |-> "IDLE", in_cancel |-> FALSE, res_info |-> FALSE,
      more_rows |-> FALSE, messages |-> << >>, done_flags |-> {},
      tclosed |-> FALSE, eof |-> FALSE, authentication |-> FALSE,
      row |-> "None", rows_affected |-> -1, has_status |-> FALSE,
      ret_status |-> "None", skipped_to_status |-> FALSE,
      output_params |-> << >> ]

\* _TdsSocket.__init__ followed by a completed login()
socket_init(mars) ==
    [ mars |-> mars, is_connected |-> TRUE, sock_closed |-> FALSE,
      route |-> NoRoute, tds72 |-> TRUE, tds72_transaction |-> 0,
      timeout |-> "query_timeout" ]

\* The transport of session s: the socket itself, or with MARS an SMP session
\* over it.
TransportClosed(R, s) ==
    R.conn.sock_closed \/ (R.conn.mars /\ R.sess[s].tclosed)

\* A faulty variant of set_state: IDLE is accepted from DEAD as from any other state.
set_state_idle_from_dead(ss, state) ==
    LET ok == [ss |-> [ss EXCEPT !.state = state], exc |-> "none"]
        err == [ss |-> ss, exc |-> "InterfaceError"]
    IN  IF state = ss.state THEN [ss |-> ss, exc |-> "none"]
        ELSE CASE state = "PENDING" ->
                    IF ss.state \in {"READING", "QUERYING"} THEN ok ELSE err
               [] state = "READING" -> IF ss.state # "PENDING" THEN err ELSE ok
               [] state = "IDLE" -> ok
               [] state = "DEAD" -> ok
               [] state = "QUERYING" -> IF ss.state # "IDLE" THEN err ELSE ok
               [] OTHER -> [ss |-> ss, exc |-> "AssertionError"]

\* _TdsSession.set_state: the new session record and the exception raised
set_state(ss, state) ==
    LET ok == [ss |-> [ss EXCEPT !.state = state], exc |-> "none"]
        err == [ss |-> ss, exc |-> "InterfaceError"]
    IN  IF state = ss.state THEN [ss |-> ss, exc |-> "none"]
        ELSE CASE state = "PENDING" ->
                    IF ss.state \in {"READING", "QUERYING"} THEN ok ELSE err
               [] state = "READING" -> IF ss.state # "PENDING" THEN err ELSE ok
               [] state = "IDLE" -> IF ss.state = "DEAD" THEN err ELSE ok
               [] state = "DEAD" -> ok
               [] state = "QUERYING" ->
                    IF ss.state = "DEAD" THEN err
                    ELSE IF ss.state # "IDLE" THEN err ELSE ok
               [] OTHER -> [ss |-> ss, exc |-> "AssertionError"]

\* set_state on session s of a run
SetState(R, s, state) ==
    Only({ [R EXCEPT !.sess[s] = r.ss, !.exc = r.exc] :
             r \in {set_state(R.sess[s], state)} })

Raise(R, e) == [R EXCEPT !.exc = e]

\* The transport is used (a read of a marker, the send of a CANCEL, of
\* payload or of the final packet of a request) under the socket timeout that
\* is in force
Observe(R, what) ==
    IF R.exc # "none" THEN R
    ELSE [R EXCEPT !.io = Append(@, [what |-> what, timeout |-> R.conn.timeout])]

\* _TdsSocket.close: close the socket (and with it every SMP session) and mark
\* the MAIN session dead.
socket_close(R) ==
    [R EXCEPT !.conn.is_connected = FALSE,
              !.conn.sock_closed = TRUE,
              !.sess["main"].state = "DEAD"]

\* _TdsSession.close: close this session's transport
session_close(R, s) ==
    IF R.conn.mars THEN [R EXCEPT !.sess[s].tclosed = TRUE]
                   ELSE [R EXCEPT !.conn.sock_closed = TRUE]

\* _TdsSession.bad_stream: close the transport and raise InterfaceError
bad_stream(R, s) ==
    Raise([session_close(R, s) EXCEPT !.bad = TRUE], "InterfaceError")

\* The server receives a CANCEL for session s: it acknowledges with a DONE
\* carrying CANCELLED, which arrives after what it had already sent.
ServerOnCancel(R, s) ==
    IF R.sess[s].eof THEN R
    ELSE [R EXCEPT !.wire[s] = R.wire[s] \o << Done({"CANCELLED"}) >>]

\* _TdsSession.put_cancel: send one empty CANCEL packet, then in_cancel = 1
put_cancel(R, s, plan) ==
    IF TransportClosed(R, s) THEN Raise(R, "OSError")
    ELSE [ServerOnCancel(Observe(R, "cancel"), s)
            EXCEPT !.cancels = R.cancels + 1, !.sess[s].in_cancel = TRUE]

\* What _read_packet does when the transport read of the packet that is being
\* waited for fails (fault kind k): see read_packet above.  A timeout in the
\* header sends CANCEL first; a timeout in the body and a zero-length read
\* propagate as they are.
read_fault(R, s, plan) ==
    Only({ CASE plan.kind = "timeout_hdr" ->
                  Only({ IF C.exc # "none" THEN C ELSE Raise(C, "TimeoutError") :
                           C \in {put_cancel(F, s, plan)} })
             [] plan.kind = "timeout_body" -> Raise(F, "TimeoutError")
             [] OTHER -> Raise([F EXCEPT !.sess[s].eof = TRUE, !.wire[s] = << >>],
                               "ClosedConnectionError") :
           F \in {[R EXCEPT !.fault = [kind |-> plan.kind, where |-> plan.where]]} })

\* Whether the read that is about to happen is the one the plan lets fail:
\* the read of the marker of token number plan.at, or a read inside it.
MarkerFault(R, plan) == plan.at = R.reads + 1 /\ plan.where = "marker"
MidFault(R, plan) == plan.at = R.reads /\ plan.where = "mid"

\* A read that finds nothing queued stalls until the socket deadline; once the
\* peer has closed, every read returns zero bytes.

NothingToRead(R, s, plan) ==
    [plan EXCEPT !.kind = IF R.sess[s].eof \/ R.conn.timeout = "None"
                          THEN "closed" ELSE "timeout_hdr",
                 !.where = "marker"]

\* _TdsSession.get_token_id: enter READING, read the marker byte; on a timeout
\* go back to PENDING and re-raise; on any other exception close the socket
\* (_TdsSocket.close) and re-raise.
get_token_id(R, s, plan) ==
    Only({ IF S.exc # "none" THEN S
           ELSE IF TransportClosed(S, s) THEN Raise(socket_close(S), "OSError")
           ELSE IF MarkerFault(S, plan) \/ S.wire[s] = << >>
           THEN Only({ IF F.exc = "TimeoutError"
                       THEN Only({ IF P.exc # "none" THEN P
                                   ELSE Raise(P, "TimeoutError") :
                                     P \in {SetState(F, s, "PENDING")} })
                       ELSE Raise(socket_close(F), F.exc) :
                         F \in {read_fault(S, s,
                                   IF S.wire[s] = << >>
                                        /\ (S.sess[s].eof \/ ~MarkerFault(S, plan))
                                   THEN NothingToRead(S, s, plan) ELSE plan)} })
           ELSE [S EXCEPT !.tok = IF Head(S.wire[s]).k = "JUNK" THEN plan.junk
                                  ELSE Head(S.wire[s]),
                          !.wire[s] = Tail(S.wire[s]),
                          !.reads = S.reads + 1] :
             S \in {Observe(SetState(R, s, "READING"), "read")} })

\* _TdsSession.raise_db_exception: drop trailing 3621 records, then raise the
\* exception made from the accumulated messages.
RECURSIVE drop_3621(_)
drop_3621(msgs) ==
    IF msgs = << >> THEN << >>
    ELSE IF msgs[Len(msgs)] = 3621 THEN drop_3621(SubSeq(msgs, 1, Len(msgs) - 1))
    ELSE msgs

\* tds_base.prog_errors and tds_base.integrity_errors: the msgnos that make a
\* ProgrammingError and an IntegrityError
prog_errors == {102, 207, 208}
integrity_errors == {515, 547, 2601, 2627}

\* The subclasses of DatabaseError that _create_exception_by_message makes
DbCategories == {"ProgrammingError", "IntegrityError", "OperationalError"}

\* _create_exception_by_message: the class of the exception from the msgno of
\* msg, its text the custom message
create_exception_by_message(msg_no, error_msg) ==
    [ exc |-> IF msg_no \in prog_errors THEN "ProgrammingError"
              ELSE IF msg_no \in integrity_errors THEN "IntegrityError"
              ELSE "OperationalError",
      text |-> error_msg, number |-> msg_no ]

\* What raise_db_exception raises from the list of messages (each stands for
\* its text; the joined text is the sequence of the texts), and the list it
\* leaves in session.messages: while the last message is 3621 it is cut off
\* (messages[-1] of an empty list raises IndexError), the text joins what is
\* left, the last one left classifies.
db_exception(msgs) ==
    IF msgs = << >>
    THEN [exc |-> "Error", text |-> << >>, number |-> 0, messages |-> msgs]
    ELSE Only({ IF kept = << >>
                THEN [exc |-> "IndexError", text |-> << >>, number |-> 0,
                      messages |-> kept]
                ELSE Only({ [ exc |-> e.exc, text |-> e.text,
                              number |-> e.number, messages |-> kept ] :
                              e \in {create_exception_by_message(
                                        kept[Len(kept)], kept)} }) :
                  kept \in {drop_3621(msgs)} })

raise_db_exception(R, s) ==
    Only({ Raise([R EXCEPT !.sess[s].messages = e.messages],
                 IF e.exc \in DbCategories THEN "DatabaseError" ELSE e.exc) :
             e \in {db_exception(R.sess[s].messages)} })

\* A fault while a handler reads the rest of its token: the exception leaves
\* the handler as it is; after a timeout the unread rest of the token is
\* still to come.
handler_fault(R, s, plan) ==
    Only({ IF plan.kind = "closed" \/ F.exc # "TimeoutError" THEN F
           ELSE [F EXCEPT !.wire[s] = << Junk >> \o F.wire[s]] :
             F \in {read_fault(R, s, plan)} })

\* A faulty variant of process_end: the session is not returned to IDLE.
process_end_no_idle(R, s, plan) ==
    LET more_results == "MORE" \in R.tok.flags
        was_cancelled == "CANCELLED" \in R.tok.flags
        R0 == [R EXCEPT !.sess[s].more_rows = FALSE]
    IN  IF MidFault(R, plan) THEN handler_fault(R0, s, plan)
        ELSE Only({ [R3 EXCEPT !.ends = R.ends \cup {
                        [flags |-> R.tok.flags, ic |-> R.sess[s].in_cancel,
                         state |-> R3.sess[s].state,
                         in_cancel |-> R3.sess[s].in_cancel, exc |-> R3.exc]}] :
               R3 \in { IF R1.exc # "none" THEN R1
                        ELSE IF "ERROR" \in R.tok.flags /\ ~was_cancelled
                                  /\ ~R1.sess[s].in_cancel
                        THEN raise_db_exception(
                                 [R1 EXCEPT !.sess[s].done_flags = R.tok.flags], s)
                        ELSE [R1 EXCEPT !.sess[s].done_flags = R.tok.flags] :
                  R1 \in { IF was_cancelled
                                 \/ (~more_results /\ ~R.sess[s].in_cancel)
                           THEN [R0 EXCEPT !.sess[s].in_cancel = FALSE]
                           ELSE R0 } } })

\* process_end, after the state change: rows_affected is the count of the
\* DONE when its COUNT bit is set, and -1 otherwise.  (An exception of
\* set_state leaves process_end before that.)
rows_affected(R, s) ==
    IF R.exc # "none" THEN R
    ELSE [R EXCEPT !.sess[s].rows_affected =
                     IF "COUNT" \in R.tok.flags THEN R.tok.num ELSE -1]

\* A faulty variant of process_end: every DONE with MORE unset ends a cancel.
process_end_final_clears(R, s, plan) ==
    LET more_results == "MORE" \in R.tok.flags
        was_cancelled == "CANCELLED" \in R.tok.flags
        R0 == [R EXCEPT !.sess[s].more_rows = FALSE]
    IN  IF MidFault(R, plan) THEN handler_fault(R0, s, plan)
        ELSE Only({ [R3 EXCEPT !.ends = R.ends \cup {
                        [flags |-> R.tok.flags, ic |-> R.sess[s].in_cancel,
                         state |-> R3.sess[s].state,
                         in_cancel |-> R3.sess[s].in_cancel, exc |-> R3.exc]}] :
               R3 \in { IF R1.exc # "none" THEN R1
                        ELSE IF "ERROR" \in R.tok.flags /\ ~was_cancelled
                                  /\ ~R1.sess[s].in_cancel
                        THEN raise_db_exception(
                                 [R1 EXCEPT !.sess[s].done_flags = R.tok.flags], s)
                        ELSE [R1 EXCEPT !.sess[s].done_flags = R.tok.flags] :
                  R1 \in { rows_affected(
                               IF was_cancelled \/ ~more_results
                               THEN SetState([R0 EXCEPT !.sess[s].in_cancel = FALSE],
                                             s, "IDLE")
                               ELSE R0, s) } } })

\* _TdsSession.process_end (DONE / DONEPROC / DONEINPROC)
process_end(R, s, plan) ==
    LET more_results == "MORE" \in R.tok.flags
        was_cancelled == "CANCELLED" \in R.tok.flags
        R0 == [R EXCEPT !.sess[s].more_rows = FALSE]
    IN  IF MidFault(R, plan) THEN handler_fault(R0, s, plan)
        ELSE Only({ [R3 EXCEPT !.ends = R.ends \cup {
                        [flags |-> R.tok.flags, ic |-> R.sess[s].in_cancel,
                         state |-> R3.sess[s].state,
                         in_cancel |-> R3.sess[s].in_cancel, exc |-> R3.exc]}] :
               R3 \in { IF R1.exc # "none" THEN R1
                        ELSE IF "ERROR" \in R.tok.flags /\ ~was_cancelled
                                  /\ ~R1.sess[s].in_cancel
                        THEN raise_db_exception(
                                 [R1 EXCEPT !.sess[s].done_flags = R.tok.flags], s)
                        ELSE [R1 EXCEPT !.sess[s].done_flags = R.tok.flags] :
                  R1 \in { rows_affected(
                               IF was_cancelled
                                    \/ (~more_results /\ ~R.sess[s].in_cancel)
                               THEN SetState([R0 EXCEPT !.sess[s].in_cancel = FALSE],
                                             s, "IDLE")
                               ELSE R0, s) } } })

\* _TdsSession.process_msg (ERROR / INFO): append a record to messages
process_msg(R, s, plan) ==
    IF MidFault(R, plan)
    THEN handler_fault(R, s, plan)
    ELSE [R EXCEPT !.sess[s].messages =
                     Append(R.sess[s].messages,
                            R.tok.msgno)]

\* _TdsSession.tds7_process_result (COLMETADATA): a new result descriptor
tds7_process_result(R, s, plan) ==
    IF MidFault(R, plan)
    THEN handler_fault(R, s, plan)
    ELSE [R EXCEPT !.sess[s].has_status = FALSE,
                   !.sess[s].ret_status = "None",
                   !.sess[s].skipped_to_status = FALSE,
                   !.sess[s].rows_affected = -1,
                   !.sess[s].more_rows = TRUE,
                   !.sess[s].row = "None",
                   !.sess[s].res_info = TRUE]

\* _TdsSession.process_row (ROW): info = self.res_info; info.row_count += 1;
\* then the values of the columns are read into self.row
process_row(R, s, plan) ==
    IF ~R.sess[s].res_info THEN Raise(R, "AttributeError")
    ELSE IF MidFault(R, plan)
    THEN handler_fault(R, s, plan)
    ELSE [R EXCEPT !.sess[s].row = R.tok.val]

\* _TdsSession.process_nbcrow (NBCROW): a bad stream without a result
\* descriptor; otherwise the values are read into self.row
process_nbcrow(R, s, plan) ==
    IF ~R.sess[s].res_info THEN bad_stream(R, s)
    ELSE IF MidFault(R, plan)
    THEN handler_fault(R, s, plan)
    ELSE [R EXCEPT !.sess[s].row = R.tok.val]

\* _TdsSession.process_param (RETURNVALUE) from TDS 7.2 on: the ordinal is
\* read from the token; output_params[ordinal] = param.  output_params is the
\* dict as the sequence of its items in insertion order.
process_param(R, s, plan) ==
    IF MidFault(R, plan) THEN handler_fault(R, s, plan)
    ELSE LET item == [key |-> R.tok.num, value |-> R.tok.val]
             items == R.sess[s].output_params
         IN  [R EXCEPT !.sess[s].output_params =
                 IF \E i \in 1..Len(items) : items[i].key = item.key
                 THEN [i \in 1..Len(items) |->
                         IF items[i].key = item.key THEN item ELSE items[i]]
                 ELSE Append(items, item)]

\* _TdsSession.process_returnstatus (RETURNSTATUS)
process_returnstatus(R, s, plan) ==
    IF MidFault(R, plan) THEN handler_fault(R, s, plan)
    ELSE [R EXCEPT !.sess[s].ret_status = ToString(R.tok.num),
                   !.sess[s].has_status = TRUE]

\* _TdsSession.process_env_chg: type 20 stores the route in the connection,
\* BEGINTRANS the descriptor of the transaction, COMMITTRANS and
\* ROLLBACKTRANS the descriptor 0; the other types do not touch what the
\* model keeps.
process_env_chg(R, s, plan) ==
    IF MidFault(R, plan)
    THEN handler_fault(R, s, plan)
    ELSE IF R.tok.route # NoRoute THEN [R EXCEPT !.conn.route = R.tok.route]
    ELSE IF "BEGINTRANS" \in R.tok.flags
    THEN [R EXCEPT !.conn.tds72_transaction = R.tok.num]
    ELSE IF R.tok.flags \cap {"COMMITTRANS", "ROLLBACKTRANS"} # {}
    THEN [R EXCEPT !.conn.tds72_transaction = 0]
    ELSE R

\* _TdsSession.process_auth (SSPI): an error when the session has no
\* authentication handler; otherwise the blob goes to the handler.
process_auth(R, s, plan) ==
    IF MidFault(R, plan) THEN handler_fault(R, s, plan)
    ELSE IF ~R.sess[s].authentication THEN Raise(R, "Error")
    ELSE R

\* _TdsSession.process_token: look the marker up in _token_map; no handler is
\* a bad stream.  (LOGINACK has no handler there: process_login_tokens reads
\* it itself.)
process_token(R, s, plan) ==
    CASE R.tok.k = "DONE" -> process_end(R, s, plan)
      [] R.tok.k \in {"ERROR", "INFO"} -> process_msg(R, s, plan)
      [] R.tok.k = "ENVCHANGE" -> process_env_chg(R, s, plan)
      [] R.tok.k = "AUTH" -> process_auth(R, s, plan)
      [] R.tok.k = "COLMETADATA" -> tds7_process_result(R, s, plan)
      [] R.tok.k = "ROW" -> process_row(R, s, plan)
      [] R.tok.k = "NBCROW" -> process_nbcrow(R, s, plan)
      [] R.tok.k = "RETURNVALUE" -> process_param(R, s, plan)
      [] R.tok.k = "RETURNSTATUS" -> process_returnstatus(R, s, plan)
      [] OTHER -> bad_stream(R, s)

\* _TdsSession.next_row: False when no rows are expected; otherwise read
\* tokens until a ROW (True) or a DONE (False).
RECURSIVE next_row_loop(_, _, _)
next_row_loop(R, s, plan) ==
    Only({ IF G.exc # "none" THEN G
           ELSE IF G.tok.k \in {"ROW", "NBCROW"}
           THEN [process_token(G, s, plan) EXCEPT !.ret = "True"]
           ELSE IF G.tok.k = "DONE"
           THEN [process_end(G, s, plan) EXCEPT !.ret = "False"]
           ELSE Only({ IF P.exc # "none" THEN P ELSE next_row_loop(P, s, plan) :
                         P \in {process_token(G, s, plan)} }) :
             G \in {get_token_id(R, s, plan)} })

\* A faulty variant of next_row: it reads whether or not rows are expected.
next_row_always_reads(R, s, plan) == next_row_loop(R, s, plan)

next_row(R, s, plan) ==
    IF ~R.sess[s].more_rows THEN [R EXCEPT !.ret = "False"]
    ELSE next_row_loop(R, s, plan)

\* _TdsSession.find_result_or_done
RECURSIVE find_result_loop(_, _, _)
find_result_loop(R, s, plan) ==
    Only({ IF G.exc # "none" THEN G
           ELSE IF G.tok.k = "COLMETADATA"
           THEN [process_token(G, s, plan) EXCEPT !.ret = "True"]
           ELSE IF G.tok.k = "DONE"
           THEN Only({ IF E.exc # "none" THEN E
                       ELSE IF "MORE" \in E.sess[s].done_flags
                       THEN IF "COUNT" \in E.sess[s].done_flags
                            THEN [E EXCEPT !.ret = "True"]
                            ELSE find_result_loop(E, s, plan)
                       ELSE [E EXCEPT !.ret = "False"] :
                         E \in {process_end(G, s, plan)} })
           ELSE Only({ IF P.exc # "none" THEN P ELSE find_result_loop(P, s, plan) :
                         P \in {process_token(G, s, plan)} }) :
             G \in {get_token_id(R, s, plan)} })

find_result_or_done(R, s, plan) ==
    find_result_loop([R EXCEPT !.sess[s].done_flags = {}], s, plan)

\* _TdsSession.process_simple_request
RECURSIVE process_simple_request(_, _, _)
process_simple_request(R, s, plan) ==
    Only({ IF G.exc # "none" THEN G
           ELSE IF G.tok.k = "DONE"
           THEN Only({ IF E.exc # "none" THEN E
                       ELSE IF "MORE" \notin E.sess[s].done_flags THEN E
                       ELSE process_simple_request(E, s, plan) :
                         E \in {process_end(G, s, plan)} })
           ELSE Only({ IF P.exc # "none" THEN P
                       ELSE process_simple_request(P, s, plan) :
                         P \in {process_token(G, s, plan)} }) :
             G \in {get_token_id(R, s, plan)} })

\* _TdsSession.process_cancel: nothing when no cancel is pending; otherwise
\* process tokens until in_cancel is cleared.
RECURSIVE process_cancel_loop(_, _, _)
process_cancel_loop(R, s, plan) ==
    Only({ IF G.exc # "none" THEN G
           ELSE Only({ IF P.exc # "none" THEN P
                       ELSE IF ~P.sess[s].in_cancel THEN P
                       ELSE process_cancel_loop(P, s, plan) :
                         P \in {process_token(G, s, plan)} }) :
             G \in {get_token_id(R, s, plan)} })

process_cancel(R, s, plan) ==
    IF ~R.sess[s].in_cancel THEN R ELSE process_cancel_loop(R, s, plan)

\* A faulty variant of cancel_if_pending: the drain is skipped.
cancel_if_pending_no_drain(R, s, plan) ==
    IF R.sess[s].state = "IDLE" THEN R
    ELSE IF ~R.sess[s].in_cancel THEN put_cancel(R, s, plan) ELSE R

\* _TdsSession.cancel_if_pending
cancel_if_pending(R, s, plan) ==
    IF R.sess[s].state = "IDLE" THEN R
    ELSE Only({ IF C.exc # "none" THEN C ELSE process_cancel(C, s, plan) :
                  C \in {IF ~R.sess[s].in_cancel THEN put_cancel(R, s, plan)
                         ELSE R} })

\* The server receives the final packet of a request on session s and queues
\* its response.
ServerOnRequest(R, s, resp) ==
    IF R.sess[s].eof THEN R
    ELSE [R EXCEPT !.wire[s] = R.wire[s] \o resp]

\* A send on the transport fails (the peer has reset the connection): sendall
\* raises, nothing in the writer or the session closes anything, and the peer
\* sends nothing more.
send_fault(R, s, plan) ==
    Raise([R EXCEPT !.fault = [kind |-> plan.kind, where |-> "write"],
                    !.sess[s].eof = TRUE,
                    !.wire[s] = << >>], "OSError")

\* _TdsWriter.flush as the session sees it: the final packet of the request
\* goes to the transport.
flush_request(R, s, plan) ==
    IF TransportClosed(R, s) THEN Raise(R, "OSError")
    ELSE IF plan.kind = "send_flush" THEN send_fault(Observe(R, "flush"), s, plan)
    ELSE [Observe(R, "flush") EXCEPT !.unread = Len(R.wire[s]), !.wrote = TRUE]

\* The managed block of a submit method: it writes the payload of the request
\* into the writer.  A payload that fits the packet only fills the buffer; a
\* longer one has its first packets sent from within the block, and that send
\* can fail (plan.kind = "send_payload").
managed_block(R, s, plan) ==
    IF plan.kind # "send_payload" THEN R
    ELSE IF TransportClosed(R, s) THEN Raise(R, "OSError")
    ELSE send_fault(Observe(R, "payload"), s, plan)

\* _TdsSession.querying_context: enter QUERYING and begin_packet; run the
\* managed block; if it raised, back to IDLE unless DEAD, and re-raise;
\* otherwise PENDING and then flush.
querying_context(R, s, plan) ==
    Only({ IF Q.exc # "none" THEN Q
           ELSE Only({ IF B.exc # "none"
                       THEN IF B.sess[s].state # "DEAD"
                            THEN Only({ Raise(I, IF I.exc # "none" THEN I.exc ELSE B.exc) :
                                          I \in {SetState([B EXCEPT !.exc = "none"], s, "IDLE")} })
                            ELSE B
                       ELSE Only({ IF P.exc # "none" THEN P
                                   ELSE flush_request(P, s, plan) :
                                     P \in {SetState(B, s, "PENDING")} }) :
                         B \in {managed_block([Q EXCEPT !.entered = TRUE], s, plan)} }) :
             Q \in {SetState(R, s, "QUERYING")} })

\* One statement of a submit method, in the order of execution
Step(R, x) == [R EXCEPT !.steps = Append(@, x)]

\* A faulty variant of _start_query: the descriptor written is always 0.
start_query_zero(R) ==
    IF R.entered /\ R.conn.tds72 THEN [R EXCEPT !.hdr = Append(@, 0)] ELSE R

\* _TdsSession._start_query, called first in the managed block of a request
\* under TDS 7.2 or higher: the all-headers block with the transaction
\* descriptor of the connection goes into the request.  (The block only
\* writes; the descriptor is the same before and after it.)
start_query(R) ==
    IF R.entered /\ R.conn.tds72
    THEN [R EXCEPT !.hdr = Append(@, R.conn.tds72_transaction)]
    ELSE R

\* _TdsSession.submit_plain_query
submit_plain_query(R, s, plan) ==
    Only({ IF C.exc # "none" THEN C
           ELSE start_query(querying_context(
                    Step([C EXCEPT !.sess[s].res_info = FALSE], "querying_context"),
                    s, plan)) :
             C \in {cancel_if_pending(
                        Step(Step([R EXCEPT !.sess[s].messages = << >>], "messages"),
                             "cancel_if_pending"),
                        s, plan)} })

\* _TdsSession.submit_rpc
submit_rpc(R, s, plan) ==
    Only({ IF C.exc # "none" THEN C
           ELSE start_query(querying_context(
                    Step([C EXCEPT !.sess[s].res_info = FALSE], "querying_context"),
                    s, plan)) :
             C \in {cancel_if_pending(
                        Step(Step(Step([R EXCEPT !.sess[s].messages = << >>,
                                                 !.sess[s].output_params = << >>],
                                       "messages"),
                                  "output_params"),
                             "cancel_if_pending"),
                        s, plan)} })

\* _TdsSession.submit_begin_tran (submit_commit and submit_rollback have the
\* same skeleton): a transaction manager request from TDS 7.2 on; before, a
\* plain query (without the all-headers block) and then tds72_transaction = 1.
submit_begin_tran(R, s, plan, tds72) ==
    IF ~tds72
    THEN Only({ IF Q.exc # "none" THEN [Q EXCEPT !.hdr = << >>]
                ELSE [Q EXCEPT !.hdr = << >>, !.conn.tds72_transaction = 1] :
                  Q \in {submit_plain_query(R, s, plan)} })
    ELSE Only({ IF C.exc # "none" THEN C
                ELSE start_query(querying_context(Step(C, "querying_context"),
                                                  s, plan)) :
                  C \in {cancel_if_pending(
                             Step(Step([R EXCEPT !.sess[s].messages = << >>],
                                       "messages"),
                                  "cancel_if_pending"),
                             s, plan)} })

\* _TdsSession.submit_bulk: the querying context only
submit_bulk(R, s, plan) ==
    querying_context(Step(R, "querying_context"), s, plan)

(***************************************************************************)
(* The environment of a session: what the server answers, what can go      *)
(* wrong on the transport.                                                 *)
(***************************************************************************)
\* Responses of the server to one request
Responses ==
    { << Done({}) >>,
      << Tok("COLMETADATA", {}), Tok("ROW", {}), Done({"COUNT"}) >>,
      << Msg("ERROR", 102), Done({"ERROR"}) >>,
      << Msg("ERROR", 3621), Done({"ERROR"}) >>,
      << Msg("ERROR", 102), Done({"ERROR", "MORE"}), Done({}) >>,
      << Done({"MORE"}), Done({}) >>,
      << Msg("INFO", 5701), Tok("UNKNOWN", {}) >> }

\* The msgnos of the messages a server sends: one of each class, and 3621
MsgNos == {102, 547, 3621, 5701}
MaxRaiseLen == 3

\* What the rest of a half-read token can look like when it is read as the
\* start of a token
JunkReadings ==
    { Done({}), Done({"CANCELLED"}), Tok("ROW", {}), Tok("UNKNOWN", {}) }

NoPlan ==
    [at |-> 0, kind |-> "none", where |-> "none", junk |-> Tok("UNKNOWN", {})]

\* The plans of one operation on session s: no fault, or a fault of some kind
\* at the marker of, or inside, the token number `at` that the operation
\* reads; and what a rest of a half-read token on the wire reads as.  Only a
\* session that is PENDING or READING gets to read (set_state(READING) raises
\* from every other state), so only there do the plans differ.
Plans(s) ==
    LET junks == IF \E i \in 1..Len(wire[s]) : wire[s][i] = Junk
                 THEN JunkReadings ELSE {NoPlan.junk}
    IN  IF sess[s].state \notin {"PENDING", "READING"} THEN {NoPlan}
        ELSE { [at |-> a, kind |-> k, where |-> w, junk |-> j] :
                 a \in IF last.faults < MaxFaults THEN 1..MaxFaultAt ELSE {},
                 k \in {"timeout_hdr", "timeout_body", "closed"},
                 w \in {"marker", "mid"},
                 j \in junks }
             \cup { [NoPlan EXCEPT !.junk = j] : j \in junks }

NoFault == [kind |-> "none", where |-> "none"]

\* The plans of a submit on session s: those of its reads, or a send that
\* fails, in the managed block or at the final flush.
SubmitPlans(s) ==
    Plans(s) \cup
    { [NoPlan EXCEPT !.kind = k, !.where = "write"] :
        k \in IF last.faults < MaxFaults THEN {"send_payload", "send_flush"}
              ELSE {} }

\* The run record an operation starts from
Run ==
    [ sess |-> sess, conn |-> conn, wire |-> wire, exc |-> "none",
      cancels |-> 0, reads |-> 0, ends |-> {}, bad |-> FALSE,
      fault |-> NoFault, tok |-> Junk, wrote |-> FALSE, unread |-> 0,
      ret |-> "None", steps |-> << >>, entered |-> FALSE, outs |-> << >>,
      io |-> << >>, hdr |-> << >> ]

\* The operation `op` on session s ends with run record R: the variables take
\* R's values and `last` records what the caller and the wire have seen.
Finish(op, s, R, req) ==
    /\ last.n < MaxOps
    /\ Len(R.wire[s]) <= MaxWire
    /\ Len(R.sess[s].messages) <= MaxMessages
    /\ last.faults + (IF R.fault.kind # "none" THEN 1 ELSE 0) <= MaxFaults
    /\ sess' = R.sess
    /\ conn' = R.conn
    /\ wire' = R.wire
    /\ last' = [ op |-> op, s |-> s, req |-> req, exc |-> R.exc, ret |-> R.ret,
                 prior |-> sess[s].state, prior_ic |-> sess[s].in_cancel,
                 prior_main |-> sess["main"].state,
                 cancels |-> R.cancels, reads |-> R.reads, wrote |-> R.wrote,
                 unread |-> R.unread, fault |-> R.fault, bad |-> R.bad,
                 ends |-> R.ends, steps |-> R.steps, entered |-> R.entered,
                 n |-> last.n + 1,
                 faults |-> last.faults + (IF R.fault.kind # "none" THEN 1 ELSE 0) ]

\* `last` before any operation
LastInit ==
    [ op |-> "init", s |-> "main", req |-> "none", exc |-> "none",
      ret |-> "None", prior |-> "IDLE", prior_ic |-> FALSE,
      prior_main |-> "IDLE",
      cancels |-> 0, reads |-> 0, wrote |-> FALSE, unread |-> 0,
      fault |-> NoFault, bad |-> FALSE, ends |-> {}, steps |-> << >>,
      entered |-> FALSE, faults |-> 0, n |-> 0 ]

SessionInit ==
    /\ \E m \in BOOLEAN : conn = socket_init(m)
    /\ sess = [s \in SessionIds |-> session_init]
    /\ wire = [s \in SessionIds |-> << >>]
    /\ last = LastInit

\* A submit method has returned with run record R; if the final packet of
\* the request went out, the server answers it with one of Responses.
Submitted(op, s, R, req) ==
    \E resp \in IF R.wrote THEN Responses ELSE {<< >>} :
        Finish(op, s, ServerOnRequest(R, s, resp), req)

SubmitPlainQuery ==
    \E s \in Callers(conn) : \E plan \in SubmitPlans(s) :
        \E R \in {submit_plain_query(Run, s, plan)} :
            Submitted("submit_plain_query", s, R, "none")

SubmitRpc ==
    \E s \in Callers(conn) : \E plan \in SubmitPlans(s) :
        \E R \in {submit_rpc(Run, s, plan)} :
            Submitted("submit_rpc", s, R, "none")

SubmitBeginTran ==
    \E s \in Callers(conn) : \E plan \in SubmitPlans(s), tds72 \in BOOLEAN :
        \E R \in {submit_begin_tran(Run, s, plan, tds72)} :
            Submitted("submit_begin_tran", s, R, IF tds72 THEN "tds72" ELSE "tds71")

SubmitBulk ==
    \E s \in Callers(conn) : \E plan \in (SubmitPlans(s) \ Plans(s)) \cup {NoPlan} :
        \E R \in {submit_bulk(Run, s, plan)} :
            Submitted("submit_bulk", s, R, "none")

NextRow ==
    \E s \in Callers(conn) : \E plan \in Plans(s) :
        \E R \in {next_row(Run, s, plan)} : Finish("next_row", s, R, "none")

FindResultOrDone ==
    \E s \in Callers(conn) : \E plan \in Plans(s) :
        \E R \in {find_result_or_done(Run, s, plan)} : Finish("find_result_or_done", s, R, "none")

ProcessSimpleRequest ==
    \E s \in Callers(conn) : \E plan \in Plans(s) :
        \E R \in {process_simple_request(Run, s, plan)} : Finish("process_simple_request", s, R, "none")

CancelIfPending ==
    \E s \in Callers(conn) : \E plan \in Plans(s) :
        \E R \in {cancel_if_pending(Run, s, plan)} : Finish("cancel_if_pending", s, R, "none")

\* A direct call of set_state(new) on session s
SetStateCall ==
    \E s \in SessionIds, new \in States :
        \E R \in {SetState(Run, s, new)} :
        /\ sess' = R.sess
        /\ last' = [last EXCEPT !.op = "set_state", !.s = s, !.req = new,
                                !.exc = R.exc, !.prior = sess[s].state]
        /\ UNCHANGED << conn, wire >>

SessionNext ==
    \/ SubmitPlainQuery /\ UNCHANGED << writerVars, readerVars, raiseVars, loginVars >>
    \/ SubmitBulk /\ UNCHANGED << writerVars, readerVars, raiseVars, loginVars >>
    \/ NextRow /\ UNCHANGED << writerVars, readerVars, raiseVars, loginVars >>
    \/ FindResultOrDone /\ UNCHANGED << writerVars, readerVars, raiseVars, loginVars >>
    \/ ProcessSimpleRequest /\ UNCHANGED << writerVars, readerVars, raiseVars, loginVars >>
    \/ CancelIfPending /\ UNCHANGED << writerVars, readerVars, raiseVars, loginVars >>

\* The submit methods and the drain of a response
SubmitNext ==
    \/ SubmitPlainQuery /\ UNCHANGED << writerVars, readerVars, raiseVars, loginVars >>
    \/ SubmitRpc /\ UNCHANGED << writerVars, readerVars, raiseVars, loginVars >>
    \/ SubmitBeginTran /\ UNCHANGED << writerVars, readerVars, raiseVars, loginVars >>
    \/ SubmitBulk /\ UNCHANGED << writerVars, readerVars, raiseVars, loginVars >>
    \/ ProcessSimpleRequest /\ UNCHANGED << writerVars, readerVars, raiseVars, loginVars >>

(***************************************************************************)
(* The methods of a session that a cursor calls: execute, callproc,        *)
(* fetchone, get_proc_outputs, get_proc_return_status.                     *)
(***************************************************************************)
MaxRows == 2            \* most rows of a result set
MaxParams == 2          \* parameters of the stored procedure that is called
MaxFetches == 4         \* calls that follow the statement of a run

\* _TdsSession.process_rpc: read tokens until a result set starts (True) or a
\* DONE or DONEPROC that is final or carries a count (False).
RECURSIVE process_rpc_loop(_, _, _)
process_rpc_loop(R, s, plan) ==
    Only({ IF G.exc # "none" THEN G
           ELSE IF G.tok.k = "COLMETADATA"
           THEN [process_token(G, s, plan) EXCEPT !.ret = "True"]
           ELSE IF G.tok.k = "DONE"
           THEN Only({ IF E.exc # "none" THEN E
                       ELSE IF "MORE" \in E.sess[s].done_flags
                                 /\ "COUNT" \notin E.sess[s].done_flags
                       THEN process_rpc_loop(E, s, plan)
                       ELSE [E EXCEPT !.ret = "False"] :
                         E \in {process_end(G, s, plan)} })
           ELSE Only({ IF P.exc # "none" THEN P ELSE process_rpc_loop(P, s, plan) :
                         P \in {process_token(G, s, plan)} }) :
             G \in {get_token_id(R, s, plan)} })

process_rpc(R, s, plan) ==
    process_rpc_loop([R EXCEPT !.sess[s].done_flags = {}], s, plan)

\* _TdsSession.next_set: read the rest of the rows, then False when the
\* session is IDLE, else what find_result_or_done finds (None for its False)
RECURSIVE next_set(_, _, _)
next_set(R, s, plan) ==
    IF R.sess[s].more_rows
    THEN Only({ IF N.exc # "none" THEN N ELSE next_set(N, s, plan) :
                  N \in {next_row(R, s, plan)} })
    ELSE IF R.sess[s].state = "IDLE" THEN [R EXCEPT !.ret = "False"]
    ELSE Only({ IF F.exc # "none" \/ F.ret = "True" THEN F
                ELSE [F EXCEPT !.ret = "None"] :
                  F \in {find_result_or_done(R, s, plan)} })

\* _TdsSession.complete_rpc: while self.next_set(): pass
RECURSIVE complete_rpc(_, _, _)
complete_rpc(R, s, plan) ==
    Only({ IF N.exc = "none" /\ N.ret = "True" THEN complete_rpc(N, s, plan)
           ELSE N :
             N \in {next_set(R, s, plan)} })

\* _TdsSession.find_return_status: skipped_to_status = True, then process
\* tokens until a RETURNSTATUS has been processed
RECURSIVE find_return_status_loop(_, _, _)
find_return_status_loop(R, s, plan) ==
    Only({ IF G.exc # "none" THEN G
           ELSE Only({ IF P.exc # "none" \/ G.tok.k = "RETURNSTATUS" THEN P
                       ELSE find_return_status_loop(P, s, plan) :
                         P \in {process_token(G, s, plan)} }) :
             G \in {get_token_id(R, s, plan)} })

find_return_status(R, s, plan) ==
    find_return_status_loop([R EXCEPT !.sess[s].skipped_to_status = TRUE],
                            s, plan)

\* _TdsSession.get_proc_return_status
get_proc_return_status(R, s, plan) ==
    Only({ IF F.exc # "none" THEN F
           ELSE [F EXCEPT !.ret = IF F.sess[s].has_status
                                  THEN F.sess[s].ret_status ELSE "None"] :
             F \in {IF ~R.sess[s].has_status THEN find_return_status(R, s, plan)
                    ELSE R} })

\* results[key] = param.value for every item of output_params, on a list
\* `results`: IndexError when a key is not an index of the list
store_outputs(R, s, results) ==
    LET items == R.sess[s].output_params
    IN  IF \E i \in 1..Len(items) : items[i].key >= Len(results)
        THEN Raise(R, "IndexError")
        ELSE [R EXCEPT !.outs =
                [j \in 1..Len(results) |->
                   IF \E i \in 1..Len(items) : items[i].key = j - 1
                   THEN (CHOOSE it \in {items[i] : i \in 1..Len(items)} :
                            it.key = j - 1).value
                   ELSE results[j]]]

\* _TdsSession.get_proc_outputs: complete_rpc(), then a list of as many None
\* as output_params has items, filled by key
get_proc_outputs(R, s, plan) ==
    Only({ IF C.exc # "none" THEN C
           ELSE store_outputs(C, s,
                    [j \in 1..Len(C.sess[s].output_params) |-> "None"]) :
             C \in {complete_rpc(R, s, plan)} })

\* _TdsSession.callproc with MaxParams parameters, answered with resp:
\* submit_rpc, process_rpc, then the list of the parameters with the OUTPUT
\* values stored by key
callproc(R, s, plan, resp) ==
    Only({ IF S.exc # "none" THEN S
           ELSE Only({ IF P.exc # "none" THEN P
                       ELSE store_outputs(P, s, [j \in 1..MaxParams |-> "in"]) :
                         P \in {process_rpc(ServerOnRequest(S, s, resp), s, plan)} }) :
             S \in {submit_rpc(R, s, plan)} })

\* _TdsSession.execute, answered with resp: an RPC of sp_executesql when there
\* are named parameters, otherwise a plain query; then find_result_or_done
execute(R, s, plan, resp, named) ==
    Only({ IF S.exc # "none" THEN S
           ELSE find_result_or_done(ServerOnRequest(S, s, resp), s, plan) :
             S \in {IF named THEN submit_rpc(R, s, plan)
                    ELSE submit_plain_query(R, s, plan)} })

\* _TdsSession.fetchone
fetchone(R, s, plan) ==
    IF ~R.sess[s].res_info THEN Raise(R, "ProgrammingError")
    ELSE IF R.sess[s].skipped_to_status THEN Raise(R, "ProgrammingError")
    ELSE Only({ IF N.exc # "none" THEN N
                ELSE IF N.ret # "True" THEN [N EXCEPT !.ret = "None"]
                ELSE [N EXCEPT !.ret = N.sess[s].row] :
                  N \in {next_row(R, s, plan)} })

\* The value of row number i of a result set
RowValue(i) == ToString(i)

\* A result set of n rows and its final DONE with the count n
RowsResponse(n) ==
    << Tok("COLMETADATA", {}) >> \o [i \in 1..n |-> Row("ROW", RowValue(i))]
        \o << DoneCount({}, n) >>

\* The response to a call of a procedure whose parameters at the positions
\* byref are OUTPUT parameters, with or without a RETURN status
RECURSIVE ReturnValues(_)
ReturnValues(byref) ==
    IF byref = {} THEN << >>
    ELSE LET k == CHOOSE x \in byref : \A y \in byref : x <= y
         IN  << ReturnValue(k, "out") >> \o ReturnValues(byref \ {k})

ProcResponse(byref, status) ==
    (IF status THEN << ReturnStatus(7) >> ELSE << >>)
        \o ReturnValues(byref) \o << Done({}) >>

\* What the server answers to the statement of a run
CursorResponses ==
    { RowsResponse(n) : n \in 0..MaxRows }
    \cup { ProcResponse(byref, status) :
             byref \in SUBSET (0..(MaxParams - 1)), status \in BOOLEAN }
    \cup { << Tok("COLMETADATA", {}), Row("NBCROW", RowValue(1)),
              DoneCount({"MORE"}, 1), ReturnStatus(7), Done({}) >>,
           << Row("ROW", RowValue(1)), Done({}) >>,
           << Row("NBCROW", RowValue(1)), Done({}) >> }

\* `last` of a run of cursor calls: the response to its statement, and for
\* every call since (the statement first) what it returned and how it left
\* the session
CursorInit ==
    /\ conn = socket_init(FALSE)
    /\ sess = [s \in SessionIds |-> session_init]
    /\ wire = [s \in SessionIds |-> << >>]
    /\ last = [resp |-> << >>, trail |-> << >>]

CursorFinish(op, s, R, resp) ==
    /\ sess' = R.sess
    /\ conn' = R.conn
    /\ wire' = R.wire
    /\ last' = [ resp |-> resp,
                 trail |-> Append(last.trail,
                     [ op |-> op, exc |-> R.exc, ret |-> R.ret, outs |-> R.outs,
                       reads |-> R.reads, bad |-> R.bad, before |-> sess[s],
                       after |-> R.sess[s] ]) ]

Execute ==
    /\ last.trail = << >>
    /\ \E s \in Callers(conn), resp \in CursorResponses, named \in BOOLEAN :
         \E R \in {execute(Run, s, NoPlan, resp, named)} :
             CursorFinish("execute", s, R, resp)

CallProc ==
    /\ last.trail = << >>
    /\ \E s \in Callers(conn), resp \in CursorResponses :
         \E R \in {callproc(Run, s, NoPlan, resp)} :
             CursorFinish("callproc", s, R, resp)

FetchOne ==
    /\ Len(last.trail) <= MaxFetches
    /\ \E s \in Callers(conn) : \E R \in {fetchone(Run, s, NoPlan)} :
         CursorFinish("fetchone", s, R, last.resp)

GetProcOutputs ==
    /\ Len(last.trail) <= MaxFetches
    /\ \E s \in Callers(conn) : \E R \in {get_proc_outputs(Run, s, NoPlan)} :
         CursorFinish("get_proc_outputs", s, R, last.resp)

GetProcReturnStatus ==
    /\ Len(last.trail) <= MaxFetches
    /\ \E s \in Callers(conn) : \E R \in {get_proc_return_status(Run, s, NoPlan)} :
         CursorFinish("get_proc_return_status", s, R, last.resp)

CursorNext ==
    \/ Execute /\ UNCHANGED << writerVars, readerVars, raiseVars, loginVars >>
    \/ CallProc /\ UNCHANGED << writerVars, readerVars, raiseVars, loginVars >>
    \/ FetchOne /\ UNCHANGED << writerVars, readerVars, raiseVars, loginVars >>
    \/ GetProcOutputs /\ UNCHANGED << writerVars, readerVars, raiseVars, loginVars >>
    \/ GetProcReturnStatus /\ UNCHANGED << writerVars, readerVars, raiseVars, loginVars >>

(***************************************************************************)
(* Transactions: begin_tran, commit, rollback, and the requests made       *)
(* while a transaction is open.                                            *)
(***************************************************************************)
\* _TdsSession.submit_commit (submit_rollback differs in the request code
\* only): the skeleton of submit_begin_tran; before TDS 7.2 the plain query
\* is followed by tds72_transaction = 1 if cont else 0.
submit_commit(R, s, plan, cont) ==
    IF R.conn.tds72 THEN submit_begin_tran(R, s, plan, TRUE)
    ELSE Only({ IF Q.exc # "none" THEN Q
                ELSE [Q EXCEPT !.conn.tds72_transaction = IF cont THEN 1 ELSE 0] :
                  Q \in {submit_begin_tran(R, s, plan, FALSE)} })

\* sock.settimeout(value)
settimeout(R, value) == [R EXCEPT !.conn.timeout = value]

\* A faulty variant of commit: the timeout is not put back when the read
\* raises (no finally).
commit_no_finally(R, s, plan, resp, cont) ==
    Only({ IF S.exc # "none" THEN S
           ELSE Only({ IF P.exc # "none" THEN P
                       ELSE settimeout(P, S.conn.timeout) :
                         P \in {process_simple_request(
                                   settimeout(ServerOnRequest(S, s, resp), "None"),
                                   s, plan)} }) :
             S \in {submit_commit(R, s, plan, cont)} })

\* _TdsSession.commit, answered with resp (rollback is the same around
\* submit_rollback): submit; prev_timeout = gettimeout(); settimeout(None);
\* try process_simple_request() finally settimeout(prev_timeout)
commit(R, s, plan, resp, cont) ==
    Only({ IF S.exc # "none" THEN S
           ELSE Only({ settimeout(P, S.conn.timeout) :
                         P \in {process_simple_request(
                                   settimeout(ServerOnRequest(S, s, resp), "None"),
                                   s, plan)} }) :
             S \in {submit_commit(R, s, plan, cont)} })

\* _TdsSession.begin_tran, answered with resp
begin_tran(R, s, plan, resp) ==
    Only({ IF S.exc # "none" THEN S
           ELSE process_simple_request(ServerOnRequest(S, s, resp), s, plan) :
             S \in {submit_begin_tran(R, s, plan, R.conn.tds72)} })

\* The descriptors a server gives to transactions
Descriptors == {5, 9}

\* What the server answers to a begin, to a commit or rollback, and to
\* another request
BeginResponses ==
    { << EnvTran("BEGINTRANS", d), Done({}) >> : d \in Descriptors }
EndResponses ==
    { << EnvTran("COMMITTRANS", 0), Done({}) >>,
      << EnvTran("ROLLBACKTRANS", 0), Done({}) >>,
      << Msg("ERROR", 3902), Done({"ERROR"}) >>,
      << Msg("INFO", 5701), Tok("UNKNOWN", {}) >> }
RequestResponses ==
    { << Done({}) >>, << Tok("COLMETADATA", {}), Row("ROW", RowValue(1)),
                         DoneCount({}, 1) >> }

\* The plans of a call in a transaction: no fault, or the peer closes the
\* connection at one of the first tokens read
TranPlans ==
    { NoPlan } \cup
    { [NoPlan EXCEPT !.at = a, !.kind = "closed", !.where = w] :
        a \in 1..MaxFaultAt, w \in {"marker", "mid"} }

TranInit ==
    /\ \E m \in BOOLEAN, v \in BOOLEAN : conn = [socket_init(m) EXCEPT !.tds72 = v]
    /\ sess = [s \in SessionIds |-> session_init]
    /\ wire = [s \in SessionIds |-> << >>]
    /\ last = [op |-> "init", exc |-> "none", hdr |-> << >>, io |-> << >>,
               before |-> socket_init(FALSE), reads |-> 0, tokens |-> << >>]

\* A call on session s ends with run record R; `last` keeps the headers it
\* wrote, the timeouts its reads and sends ran under, the connection as it
\* was before the call, and the tokens it found queued or was answered with.
TranFinish(op, s, R, resp) ==
    /\ sess' = R.sess
    /\ conn' = R.conn
    /\ wire' = R.wire
    /\ last' = [op |-> op, exc |-> R.exc, hdr |-> R.hdr, io |-> R.io,
                before |-> conn, reads |-> R.reads,
                tokens |-> IF R.wrote THEN resp ELSE << >>]

TranBegin ==
    \E s \in Callers(conn), plan \in TranPlans, resp \in BeginResponses :
        \E R \in {begin_tran(Run, s, plan, resp)} :
            TranFinish("begin_tran", s, R, resp)

TranCommit ==
    \E s \in Callers(conn), plan \in TranPlans, resp \in EndResponses,
       cont \in BOOLEAN :
        \E R \in {commit(Run, s, plan, resp, cont)} :
            TranFinish("commit", s, R, resp)

TranRequest ==
    \E s \in Callers(conn), resp \in RequestResponses,
       op \in {"submit_plain_query", "submit_rpc", "submit_bulk"} :
        \E R \in { CASE op = "submit_plain_query" -> submit_plain_query(Run, s, NoPlan)
                     [] op = "submit_rpc" -> submit_rpc(Run, s, NoPlan)
                     [] OTHER -> submit_bulk(Run, s, NoPlan) } :
            TranFinish(op, s, IF R.wrote THEN ServerOnRequest(R, s, resp) ELSE R,
                       resp)

TranRead ==
    \E s \in Callers(conn), plan \in TranPlans :
        \E R \in {process_simple_request(Run, s, plan)} :
            TranFinish("process_simple_request", s, R, << >>)

TranNext ==
    \/ TranBegin /\ UNCHANGED << writerVars, readerVars, raiseVars, loginVars >>
    \/ TranCommit /\ UNCHANGED << writerVars, readerVars, raiseVars, loginVars >>
    \/ TranRequest /\ UNCHANGED << writerVars, readerVars, raiseVars, loginVars >>
    \/ TranRead /\ UNCHANGED << writerVars, readerVars, raiseVars, loginVars >>

(***************************************************************************)
(* tds7_crypt_pass: the password as LOGIN7 carries it                       *)
(***************************************************************************)
MaxPasswordLen == 1     \* most characters of a password

\* a & b, a | b and a ^ b on the n low bits of two naturals
RECURSIVE Bitwise(_, _, _, _)
Bitwise(a, b, n, op) ==
    IF n = 0 THEN 0
    ELSE LET x == a % 2
             y == b % 2
             bit == CASE op = "and" -> IF x + y = 2 THEN 1 ELSE 0
                      [] op = "or" -> IF x + y > 0 THEN 1 ELSE 0
                      [] OTHER -> (x + y) % 2
         IN  bit + 2 * Bitwise(a \div 2, b \div 2, n - 1, op)

\* ucs2_codec.encode: UTF-16-LE, two bytes for a character of the basic
\* plane, the low byte first
ucs2_encode(password) ==
    Flatten([i \in 1..Len(password) |->
                << password[i] % 256, password[i] \div 256 >>])

\* A faulty variant of the byte mangling: the shifted byte is not masked.
crypt_byte_no_mask(ch) ==
    Bitwise(Bitwise(ch * 16, ch \div 16, 12, "or"), 165, 12, "xor")

\* ((ch << 4) & 0xff | (ch >> 4)) ^ 0xA5
crypt_byte(ch) ==
    Bitwise(Bitwise(Bitwise(ch * 16, 255, 12, "and"), ch \div 16, 12, "or"),
            165, 12, "xor")

\* tds7_crypt_pass
tds7_crypt_pass(password) ==
    Only({ [i \in 1..Len(encoded) |-> crypt_byte(encoded[i])] :
             encoded \in {ucs2_encode(password)} })

\* The characters of the passwords tried: every byte value occurs as a low
\* byte, and no character is a surrogate
PasswordChars == { b + 256 * (b \div 2) : b \in 0..255 }

Passwords ==
    UNION { [1..n -> PasswordChars] : n \in 0..MaxPasswordLen }

CryptInit == login = [password |-> << >>, crypted |-> << >>, calls |-> 0]

\* One call of tds7_crypt_pass
Crypt ==
    /\ login.calls = 0
    /\ \E password \in Passwords :
          login' = [password |-> password,
                    crypted |-> tds7_crypt_pass(password), calls |-> 1]

CryptNext ==
    Crypt /\ UNCHANGED << writerVars, readerVars, sessionVars, raiseVars >>

(***************************************************************************)
(* LOGIN7: the payload tds7_send_login writes                              *)
(***************************************************************************)
MaxFieldLen == 1        \* most characters of a string of the login record
MaxAuthLen == 3         \* bytes of the packet of an authentication plugin

Login7Strings ==
    { "client_host_name", "user_name", "password", "app_name", "server_name",
      "library", "language", "database", "attach_db_file", "change_password" }

\* A string of n characters
Chars(n) == [i \in 1..n |-> 65 + i]

\* The bytes of one part of the payload, each tagged with the part it
\* belongs to
Tagged(field, bytes) == [i \in 1..Len(bytes) |-> [f |-> field, b |-> bytes[i]]]

\* _TdsWriter.write_ucs2
write_ucs2(field, str) == Tagged(field, ucs2_encode(str))

\* An entry of the pointer table: w.put_smallint(offset), w.put_smallint(length);
\* width is the number of bytes one unit of length stands for.
Entry(field, off, len, width) ==
    [field |-> field, off |-> off, len |-> len, width |-> width]

\* _TdsSession.tds7_send_login from begin_packet to flush.  L.str holds the
\* strings of the login record, L.authentication tells whether login.auth is
\* set, L.auth_packet is the packet it creates, L.tds72 is IS_TDS72_PLUS.
tds7_send_login_payload(L) ==
    LET n(f) == Len(L.str[f])
        authentication == L.authentication
        auth_packet == IF authentication THEN L.auth_packet ELSE << >>
        start == IF L.tds72 THEN 86 + 8 ELSE 86
        packet_size ==
            start + (n("client_host_name") + n("app_name") + n("server_name")
                       + n("library") + n("language") + n("database")) * 2
                  + (IF authentication THEN Len(auth_packet)
                     ELSE (n("user_name") + n("password")) * 2)
        c1 == start + n("client_host_name") * 2
        c2 == IF authentication THEN c1 ELSE c1 + n("user_name") * 2
        c3 == IF authentication THEN c1 ELSE c2 + n("password") * 2
        c4 == c3 + n("app_name") * 2
        c5 == c4 + n("server_name") * 2
        c6 == c5 + n("library") * 2
        c7 == c6 + n("language") * 2
        c8 == c7 + n("database") * 2
        c9 == c8 + Len(auth_packet)
        c10 == c9 + n("attach_db_file") * 2
        table ==
            << Entry("client_host_name", start, n("client_host_name"), 2) >>
            \o (IF authentication
                THEN << Entry("user_name", 0, 0, 2), Entry("password", 0, 0, 2) >>
                ELSE << Entry("user_name", c1, n("user_name"), 2),
                        Entry("password", c2, n("password"), 2) >>)
            \o << Entry("app_name", c3, n("app_name"), 2),
                  Entry("server_name", c4, n("server_name"), 2),
                  Entry("reserved", 0, 0, 2),
                  Entry("library", c5, n("library"), 2),
                  Entry("language", c6, n("language"), 2),
                  Entry("database", c7, n("database"), 2),
                  Entry("auth_packet", c8, Len(auth_packet), 1),
                  Entry("attach_db_file", c9, n("attach_db_file"), 2) >>
            \o (IF L.tds72
                THEN << Entry("change_password", c10, n("change_password"), 2) >>
                ELSE << >>)
        \* packet_size .. connection id, the four flag bytes, time zone, lcid
        fixed == Tagged("fixed", Zeros(6 * 4 + 4 + 2 * 4))
        \* the entries, the 6 bytes of ClientID after the database entry and,
        \* from 7.2, the 4 bytes of the long SSPI length
        pointers == Tagged("table", Zeros(4 * Len(table) + 6
                                             + (IF L.tds72 THEN 4 ELSE 0)))
        data ==
            write_ucs2("client_host_name", L.str["client_host_name"])
            \o (IF authentication THEN << >>
                ELSE write_ucs2("user_name", L.str["user_name"])
                     \o Tagged("password", tds7_crypt_pass(L.str["password"])))
            \o write_ucs2("app_name", L.str["app_name"])
            \o write_ucs2("server_name", L.str["server_name"])
            \o write_ucs2("library", L.str["library"])
            \o write_ucs2("language", L.str["language"])
            \o write_ucs2("database", L.str["database"])
            \o (IF authentication THEN Tagged("auth_packet", auth_packet) ELSE << >>)
            \o write_ucs2("attach_db_file", L.str["attach_db_file"])
            \o write_ucs2("change_password", L.str["change_password"])
    IN  [ packet_size |-> packet_size, table |-> table,
          payload |-> fixed \o pointers \o data ]

\* A login record whose strings have 0 or MaxFieldLen characters, with or
\* without an authentication plugin, for TDS 7.0/7.1 or 7.2 and later
Login7Init ==
    \E str \in [Login7Strings -> {Chars(0), Chars(MaxFieldLen)}],
       a \in {<< >>, Zeros(MaxAuthLen)}, au \in BOOLEAN, t \in BOOLEAN :
        login = [ str |-> str, authentication |-> au /\ a # << >>,
                  auth_packet |-> a, tds72 |-> t, sent |-> FALSE,
                  packet_size |-> 0, table |-> << >>, payload |-> << >> ]

SendLogin7 ==
    /\ ~login.sent
    /\ \E P \in {tds7_send_login_payload(login)} :
          login' = [login EXCEPT !.sent = TRUE, !.packet_size = P.packet_size,
                                 !.table = P.table, !.payload = P.payload]

Login7Next ==
    SendLogin7 /\ UNCHANGED << writerVars, readerVars, sessionVars, raiseVars >>

(***************************************************************************)
(* PRELOGIN: the bytes of the reply as parse_prelogin reads them           *)
(***************************************************************************)
MaxReplyLen == 6        \* most bytes of a PRELOGIN reply

\* tds_base.PreLoginToken: the option types of PRELOGIN
PreLoginToken ==
    [ VERSION |-> 0, ENCRYPTION |-> 1, INSTOPT |-> 2, THREADID |-> 3,
      MARS |-> 4, TERMINATOR |-> 255 ]

\* tds_base.PreLoginEnc as bytes ("default 2, no certificate, no
\* encryptption")
PreLoginEncByte ==
    [ ENCRYPT_OFF |-> 0, ENCRYPT_ON |-> 1, ENCRYPT_NOT_SUP |-> 2,
      ENCRYPT_REQ |-> 3 ]

\* The bytes the replies are made of: the option types VERSION, ENCRYPTION,
\* MARS, 5 (a type parse_prelogin passes over) and TERMINATOR, which are also
\* offsets, lengths and values of the ENCRYPTION option
ReplyBytes == {0, 1, 4, 5, 255}

RECURSIVE ByteStrings(_)
ByteStrings(n) ==
    IF n = 0 THEN { << >> }
    ELSE { << >> } \cup { << b >> \o t : b \in ReplyBytes, t \in ByteStrings(n - 1) }

\* struct.Struct.unpack_from(buffer, offset) of a structure of n bytes raises
\* struct.error unless the buffer has n bytes from the offset on (offset
\* counts from 0)
struct_fits(p, offset, n) == Len(p) - offset >= n

\* The bytes unpack_from reads when it does not raise
unpack_from(p, offset, n) == [k \in 1..n |-> p[offset + k]]

\* A big-endian unsigned number
RECURSIVE BigEndian(_)
BigEndian(bytes) ==
    IF bytes = << >> THEN 0
    ELSE BigEndian(SubSeq(bytes, 1, Len(bytes) - 1)) * 256 + bytes[Len(bytes)]

\* _TdsSession.bad_stream from parse_prelogin: closes the session and raises
\* InterfaceError
prelogin_bad_stream(P) == [P EXCEPT !.closed = TRUE, !.exc = "InterfaceError"]

\* An exception of struct: nothing is closed
struct_error(P) == [P EXCEPT !.exc = "struct.error"]

\* The loop of parse_prelogin over the option records, from the record at i
RECURSIVE prelogin_options(_, _, _)
prelogin_options(P, p, i) ==
    LET size == Len(p)
        type_id == p[i + 1]
        off_len == unpack_from(p, i + 1, 4)
        off == BigEndian(SubSeq(off_len, 1, 2))
        l == BigEndian(SubSeq(off_len, 3, 4))
        version == unpack_from(p, off, 6)
        byte == unpack_from(p, off, 1)
        Q == [P EXCEPT !.options = @ + 1]
    IN  IF i >= size THEN prelogin_bad_stream(P)
        ELSE IF type_id = PreLoginToken.TERMINATOR THEN [P EXCEPT !.parsed = TRUE]
        ELSE IF i + 4 > size THEN prelogin_bad_stream(P)
        ELSE IF ~struct_fits(p, i + 1, 4) THEN struct_error(P)
        ELSE IF off > size \/ off + l > size THEN prelogin_bad_stream(P)
        ELSE IF type_id = PreLoginToken.VERSION
             THEN IF ~struct_fits(p, off, 6) THEN struct_error(P)
                  ELSE prelogin_options(
                         [Q EXCEPT !.server_library_version =
                              << BigEndian(SubSeq(version, 1, 4)),
                                 BigEndian(SubSeq(version, 5, 6)) >>], p, i + 5)
        ELSE IF type_id = PreLoginToken.ENCRYPTION /\ l >= 1
             THEN IF ~struct_fits(p, off, 1) THEN struct_error(P)
                  ELSE prelogin_options([Q EXCEPT !.crypt_flag = byte[1]], p, i + 5)
        ELSE IF type_id = PreLoginToken.MARS
             THEN IF ~struct_fits(p, off, 1) THEN struct_error(P)
                  ELSE prelogin_options([Q EXCEPT !.mars_enabled = (byte[1] # 0)],
                                        p, i + 5)
        ELSE prelogin_options(Q, p, i + 5)

\* The end of parse_prelogin: server_enc_flag and the encryption the two
\* flags lead to (tls.establish_channel is outside the file)
prelogin_encryption(P, enc_flag) ==
    Only({ CASE P.crypt_flag = PreLoginEncByte.ENCRYPT_OFF ->
                  IF enc_flag = PreLoginEncByte.ENCRYPT_ON THEN prelogin_bad_stream(Q)
                  ELSE [Q EXCEPT !.tls = TRUE]
             [] P.crypt_flag = PreLoginEncByte.ENCRYPT_ON -> [Q EXCEPT !.tls = TRUE]
             [] P.crypt_flag = PreLoginEncByte.ENCRYPT_REQ ->
                  IF enc_flag = PreLoginEncByte.ENCRYPT_NOT_SUP
                  THEN [Q EXCEPT !.exc = "Error"]
                  ELSE [Q EXCEPT !.tls = TRUE]
             [] P.crypt_flag = PreLoginEncByte.ENCRYPT_NOT_SUP ->
                  IF enc_flag = PreLoginEncByte.ENCRYPT_ON
                  THEN [Q EXCEPT !.exc = "Error"] ELSE Q
             [] OTHER -> prelogin_bad_stream(Q) :
           Q \in {[P EXCEPT !.server_enc_flag = P.crypt_flag]} })

\* _TdsSession.parse_prelogin(octets, login)
parse_prelogin_octets(P, octets, enc_flag) ==
    Only({ IF Q.exc # "none" THEN Q ELSE prelogin_encryption(Q, enc_flag) :
             Q \in {prelogin_options(P, octets, 0)} })

\* Any reply of at most MaxReplyLen bytes, for a client that asks for
\* encryption or does without; crypt_flag starts as 2, MARS as disabled
\* (_TdsSocket.__init__), server_enc_flag as login() sets it.
PreloginInit ==
    \E octets \in ByteStrings(MaxReplyLen),
       enc_flag \in {PreLoginEncByte.ENCRYPT_ON, PreLoginEncByte.ENCRYPT_NOT_SUP} :
        login = [ octets |-> octets, enc_flag |-> enc_flag, done |-> FALSE,
                  exc |-> "none", closed |-> FALSE, parsed |-> FALSE,
                  options |-> 0, crypt_flag |-> 2, mars_enabled |-> FALSE,
                  server_library_version |-> << >>,
                  server_enc_flag |-> PreLoginEncByte.ENCRYPT_NOT_SUP,
                  tls |-> FALSE ]

ParsePrelogin ==
    /\ ~login.done
    /\ \E P \in {parse_prelogin_octets(login, login.octets, login.enc_flag)} :
          login' = [P EXCEPT !.done = TRUE]

PreloginNext ==
    ParsePrelogin /\ UNCHANGED << writerVars, readerVars, sessionVars, raiseVars >>

(***************************************************************************)
(* put_cancel on the session and on its writer                             *)
(***************************************************************************)
\* A session in any state, with or without a cancel in flight, and its
\* writer at the start of a message
CancelInit ==
    /\ \E m \in BOOLEAN : conn = socket_init(m)
    /\ \E st \in States, ic \in BOOLEAN :
          sess = [s \in SessionIds |->
                    IF s \in Callers(conn)
                    THEN [session_init EXCEPT !.state = st, !.in_cancel = ic]
                    ELSE session_init]
    /\ wire = [s \in SessionIds |-> << >>]
    /\ last = LastInit

\* _TdsSession.put_cancel on session s and its writer: writer.out keeps the
\* packets this call hands to the transport.
PutCancel ==
    /\ writer.packet_no < MaxPacketNo
    /\ \E s \in Callers(conn) : \E R \in {put_cancel(Run, s, NoPlan)} :
          /\ Len(R.wire[s]) <= MaxWire
          /\ sess' = R.sess
          /\ conn' = R.conn
          /\ wire' = R.wire
          /\ writer' = put_cancel_packet([writer EXCEPT !.out = << >>])
          /\ wlog' = [phase |-> "closed", data |-> << >>, type |-> CANCEL]
          /\ last' = [last EXCEPT !.op = "put_cancel", !.s = s, !.exc = R.exc,
                                  !.prior = sess[s].state,
                                  !.prior_ic = sess[s].in_cancel,
                                  !.cancels = R.cancels]

CancelNext ==
    \/ WBeginPacket /\ UNCHANGED << readerVars, sessionVars, raiseVars, loginVars >>
    \/ WWrite /\ UNCHANGED << readerVars, sessionVars, raiseVars, loginVars >>
    \/ WFlush /\ UNCHANGED << readerVars, sessionVars, raiseVars, loginVars >>
    \/ PutCancel /\ UNCHANGED << readerVars, raiseVars, loginVars >>

(***************************************************************************)
(* The packets of a writer over its lifetime                               *)
(***************************************************************************)
MaxLifetime == 258      \* packets one writer hands to the transport

\* _write_packet when sendall raises: the header is packed and packet_no is
\* bumped before the send, pos = 8 is never reached.
write_packet_raises(w, final) == [write_packet(w, final) EXCEPT !.pos = w.pos]

\* wlog.sent counts the packets of the messages before the current one;
\* writer.out holds the packets of the current one.
LifetimeInit ==
    /\ writer = writer_init(WriterBufSize)
    /\ wlog = [phase |-> "closed", data |-> << >>, type |-> 0, sent |-> 0]

SentSoFar == wlog.sent + Len(writer.out)

LBeginPacket ==
    /\ wlog.phase = "closed"
    /\ SentSoFar < MaxLifetime
    /\ \E t \in PacketTypes \ {CANCEL} :
          /\ writer' = [begin_packet(writer, t) EXCEPT !.out = << >>]
          /\ wlog' = [phase |-> "open", data |-> << >>, type |-> t,
                      sent |-> SentSoFar]

\* put_cancel: begin_packet(CANCEL) and flush in one call
LPutCancel ==
    /\ wlog.phase = "closed"
    /\ SentSoFar < MaxLifetime
    /\ writer' = put_cancel_packet([writer EXCEPT !.out = << >>])
    /\ wlog' = [phase |-> "closed", data |-> << >>, type |-> CANCEL,
                sent |-> SentSoFar]

\* The flush of a request whose sendall raises: the message is over.
LFlushRaises ==
    /\ wlog.phase = "open"
    /\ writer' = write_packet_raises(writer, TRUE)
    /\ wlog' = [wlog EXCEPT !.phase = "closed"]

LifetimeNext ==
    \/ LBeginPacket /\ UNCHANGED << readerVars, sessionVars, raiseVars, loginVars >>
    \/ WWrite /\ UNCHANGED << readerVars, sessionVars, raiseVars, loginVars >>
    \/ WFlush /\ UNCHANGED << readerVars, sessionVars, raiseVars, loginVars >>
    \/ LFlushRaises /\ UNCHANGED << readerVars, sessionVars, raiseVars, loginVars >>
    \/ LPutCancel /\ UNCHANGED << readerVars, sessionVars, raiseVars, loginVars >>

(***************************************************************************)
(* Block size: the writers and readers of the sessions of one connection   *)
(* through login, create_session, requests, responses and cancels          *)
(***************************************************************************)
MinBlockSize == 512         \* smallest packet size process_env_chg accepts
ReaderBlockSize == 4096     \* buffer of a new _TdsReader
MaxBlockOps == 2            \* requests per connection after login
MaxBlockTokens == 1         \* tokens of a response before its DONE

PRELOGIN == 18
LOGIN == 16

\* login.blocksize, the block size the client asks for
BlockSizes == {MinBlockSize, MinBlockSize + 1}
\* the value of a packet-size ENVCHANGE
NewSizes == {MinBlockSize - 1, MinBlockSize, MinBlockSize + 1}

\* A faulty variant of the bufsize setter: a smaller size is ignored.
bufsize_setter_grow_only(w, bufsize) ==
    IF bufsize > Len(w.buf)
    THEN [w EXCEPT !.buf = w.buf \o Zeros(bufsize - Len(w.buf))]
    ELSE w

\* _TdsWriter.bufsize setter
bufsize_setter(w, bufsize) ==
    IF Len(w.buf) = bufsize THEN w
    ELSE IF bufsize > Len(w.buf)
         THEN [w EXCEPT !.buf = w.buf \o Zeros(bufsize - Len(w.buf))]
         ELSE [w EXCEPT !.buf = SubSeq(w.buf, 1, bufsize)]

\* _TdsSession.__init__: a reader with its default buffer and a writer of
\* tds.bufsize bytes
block_session(bufsize) ==
    [ exists |-> TRUE, state |-> "IDLE", in_cancel |-> FALSE,
      authentication |-> FALSE,
      w |-> writer_init(bufsize), rsize |-> ReaderBlockSize ]

NoSession ==
    [ exists |-> FALSE, state |-> "IDLE", in_cancel |-> FALSE,
      authentication |-> FALSE,
      w |-> writer_init(0), rsize |-> 0 ]

\* _TdsSocket.__init__
block_socket ==
    [ bufsize |-> 4096, mars |-> FALSE, route |-> FALSE, is_connected |-> FALSE,
      broken |-> FALSE, ops |-> 0 ]

BlockRun ==
    [ sess |-> sess, conn |-> conn, wire |-> wire, exc |-> "none",
      packets |-> << >>, resizes |-> << >> ]

\* The payload bytes of a message of n bytes
Payload(n) == [i \in 1..n |-> 1 + (i % 200)]

\* transport.sendall as the peer sees it: of every packet the writer of
\* session s handed over, its type, the length field of its header, the
\* number of bytes handed over, and the block size of the writer then.
Sent(B, s) ==
    LET w == B.sess[s].w IN
    [B EXCEPT !.packets = @ \o [i \in 1..Len(w.out) |->
                  [ s |-> s, type |-> header_unpack(w.out[i]).type,
                    length |-> header_unpack(w.out[i]).size,
                    bytes |-> Len(w.out[i]), bufsize |-> Len(w.buf) ]],
              !.sess[s].w.out = << >>]

\* process_env_chg, branch TDS_ENV_PACKSIZE
process_env_chg_packsize(B, s, new_block_size) ==
    LET w == B.sess[s].w
        w2 == IF new_block_size >= MinBlockSize
              THEN bufsize_setter(w, new_block_size)
              ELSE w
    IN  [B EXCEPT !.sess[s].w = w2,
                  !.resizes = Append(@, [ s |-> s, newval |-> new_block_size,
                                          before |-> Len(w.buf), after |-> Len(w2.buf),
                                          pos |-> w.pos, state |-> B.sess[s].state,
                                          kept |-> SubSeq(w2.buf, 1, Min(w.pos, Len(w2.buf)))
                                                     = SubSeq(w.buf, 1, Min(w.pos, Len(w.buf))),
                                          exc |-> B.exc ])]

\* process_auth on the writer: the reply of the authentication plugin, n
\* bytes, is written and flushed without a begin_packet.
process_auth_packet(B, s, n) ==
    IF ~B.sess[s].authentication THEN [B EXCEPT !.exc = "Error"]
    ELSE IF n = 0 THEN B
    ELSE Sent([B EXCEPT !.sess[s].w = flush(write(@, Payload(n)))], s)

\* _TdsSession.put_cancel
put_cancel_block(B, s) ==
    Sent([B EXCEPT !.sess[s].w = put_cancel_packet(@),
                   !.sess[s].in_cancel = TRUE,
                   !.wire[s] = << [k |-> "DONE", val |-> 1] >>], s)

\* process_end for a DONE token; val = 1 is the CANCELLED bit
process_end_block(B, s, cancelled) ==
    IF cancelled \/ ~B.sess[s].in_cancel
    THEN [B EXCEPT !.sess[s].in_cancel = FALSE, !.sess[s].state = "IDLE"]
    ELSE B

\* The token loops of a response (process_simple_request and
\* process_login_tokens): tokens until the DONE; when the next token does not
\* arrive, _read_packet times out waiting for a header, sends a CANCEL and
\* re-raises.
RECURSIVE token_loop(_, _)
token_loop(B, s) ==
    IF B.exc # "none" THEN B
    ELSE IF B.wire[s] = << >>
         THEN [put_cancel_block(B, s) EXCEPT !.exc = "TimeoutError"]
    ELSE LET t == Head(B.wire[s])
             B1 == [B EXCEPT !.wire[s] = Tail(@)] IN
         CASE t.k = "PACKSIZE" ->
                token_loop(process_env_chg_packsize(B1, s, t.val), s)
           [] t.k = "AUTH" ->
                token_loop(process_auth_packet(B1, s, t.val), s)
           [] t.k = "LOGINACK" ->
                token_loop([B1 EXCEPT !.sess[s].authentication = FALSE], s)
           [] t.k = "ROUTE" ->
                token_loop([B1 EXCEPT !.conn.route = TRUE], s)
           [] OTHER -> process_end_block(B1, s, t.val = 1)

\* A message of the session: begin_packet, the payload, flush
send_message(B, s, type, n) ==
    Sent([B EXCEPT !.sess[s].w = flush(write(begin_packet(@, type), Payload(n)))], s)

\* _TdsSocket.login
\* login, lines 1928-1930: the reader takes the block size of the writer
update_block_size(B) ==
    IF Len(B.sess["main"].w.buf) # B.sess["main"].rsize
    THEN [B EXCEPT !.sess["main"].rsize = Len(B.sess["main"].w.buf)]
    ELSE B

\* login, lines 1939-1946: with MARS the main session is made anew
mars_main_session(B) ==
    IF B.conn.mars
    THEN [B EXCEPT !.sess["main"] = block_session(B.conn.bufsize),
                   !.wire["main"] = << >>]
    ELSE B

login_block(B, blocksize, mars, auth, n) ==
    Only({ IF B4.exc # "none" \/ B4.conn.route THEN B4
           ELSE [mars_main_session(update_block_size(B4)) EXCEPT !.conn.is_connected = TRUE] :
             B4 \in { token_loop(
                        send_message(
                          [ send_message(
                              [B EXCEPT !.conn.bufsize = blocksize,
                                        !.sess["main"] = block_session(blocksize)],
                              "main", PRELOGIN, 1)
                            EXCEPT !.conn.mars = mars,
                                   !.sess["main"].authentication = auth ],
                          "main", LOGIN, n),
                        "main") } })

\* _TdsSocket.create_session
create_session_block(B, s) ==
    [B EXCEPT !.sess[s] = block_session(B.conn.bufsize)]

\* A request of an idle session: querying_context around the payload, then
\* the flush; a flush whose sendall raises leaves the session PENDING and the
\* connection broken.
request_block(B, s, type, n, fails) ==
    IF fails
    THEN Sent([B EXCEPT !.sess[s].w = write_packet_raises(
                                         write(begin_packet(@, type), Payload(n)), TRUE),
                        !.sess[s].state = "PENDING",
                        !.conn.broken = TRUE,
                        !.exc = "OSError"], s)
    ELSE Sent([B EXCEPT !.sess[s].w = flush(write(begin_packet(@, type), Payload(n))),
                        !.sess[s].state = "PENDING"], s)

\* The server queues its response to a request it has received.
ServerOnBlockRequest(B, s, resp) == [B EXCEPT !.wire[s] = resp]

\* Reading a response to its end; get_token_id puts the session back to
\* PENDING when the read of a marker times out.
read_block(B, s) ==
    Only({ IF T.exc = "TimeoutError" THEN [T EXCEPT !.sess[s].state = "PENDING"] ELSE T :
             T \in {token_loop([B EXCEPT !.sess[s].state = "READING"], s)} })

PackSizeTokens == [k : {"PACKSIZE"}, val : NewSizes]

\* The tokens of a login response: packet-size ENVCHANGE and SSPI
BlockTokens == PackSizeTokens \cup [k : {"AUTH"}, val : {3}]

\* What a server may answer to a request: up to MaxBlockTokens packet-size
\* ENVCHANGE tokens, with or without the DONE that ends a response
BlockResponses ==
    LET pre == UNION { [1..n -> PackSizeTokens] : n \in 0..MaxBlockTokens } IN
    pre \cup { p \o << [k |-> "DONE", val |-> 0] >> : p \in pre }

\* The answers to LOGIN7: tokens, then a LOGINACK or a routing ENVCHANGE,
\* then the DONE; or one token between the LOGINACK and the DONE
LoginBlockResponses ==
    LET pre == UNION { [1..n -> BlockTokens] : n \in 0..(MaxBlockTokens + 1) } IN
    { p \o << [k |-> a, val |-> 0], [k |-> "DONE", val |-> 0] >> :
        p \in pre, a \in {"LOGINACK", "ROUTE"} }
    \cup { << [k |-> "LOGINACK", val |-> 0], t, [k |-> "DONE", val |-> 0] >> :
        t \in BlockTokens }

BlockInit ==
    /\ conn = block_socket
    /\ sess = [s \in SessionIds |-> NoSession]
    /\ wire = [s \in SessionIds |-> << >>]
    /\ last = [op |-> "init", s |-> "main", exc |-> "none", packets |-> << >>,
               resizes |-> << >>, resp |-> << >>, requested |-> 0]

BlockFinish(op, s, B, resp, requested) ==
    /\ sess' = B.sess
    /\ conn' = B.conn
    /\ wire' = B.wire
    /\ last' = [op |-> op, s |-> s, exc |-> B.exc, packets |-> B.packets,
                resizes |-> B.resizes, resp |-> resp, requested |-> requested]

BlockLogin ==
    /\ ~sess["main"].exists
    /\ \E b \in BlockSizes, m \in BOOLEAN, a \in BOOLEAN, resp \in LoginBlockResponses :
          \E B \in {login_block([BlockRun EXCEPT !.wire["main"] = resp], b, m, a,
                                b - HeaderSize + 1)} :
             BlockFinish("login", "main", B, resp, b)

BlockCreateSession ==
    /\ conn.is_connected /\ conn.mars /\ ~conn.broken
    /\ ~sess["aux"].exists
    /\ \E B \in {create_session_block(BlockRun, "aux")} :
          BlockFinish("create_session", "aux", B, << >>, last.requested)

BlockRequest ==
    /\ conn.is_connected /\ ~conn.broken
    /\ conn.ops < MaxBlockOps
    /\ \E s \in SessionIds :
          /\ sess[s].exists
          /\ \A o \in SessionIds : sess[o].state = "IDLE"
          /\ \E n \in {1, Len(sess[s].w.buf) - HeaderSize + 1} :
               \E B \in {request_block([BlockRun EXCEPT !.conn.ops = @ + 1],
                                       s, 1, n, FALSE)} :
                  \E resp \in BlockResponses :
                     BlockFinish("request", s, ServerOnBlockRequest(B, s, resp),
                                 resp, last.requested)

\* A request whose flush fails
BlockRequestFails ==
    /\ conn.is_connected /\ ~conn.broken
    /\ conn.ops < MaxBlockOps
    /\ \E s \in SessionIds :
          /\ sess[s].exists
          /\ \A o \in SessionIds : sess[o].state = "IDLE"
          /\ \E B \in {request_block([BlockRun EXCEPT !.conn.ops = @ + 1],
                                      s, 7, 1, TRUE)} :
                BlockFinish("request", s, B, << >>, last.requested)

BlockRead ==
    /\ conn.is_connected /\ ~conn.broken
    /\ \E s \in SessionIds :
          /\ sess[s].exists /\ sess[s].state \in {"PENDING", "READING"}
          /\ \E B \in {read_block(BlockRun, s)} :
                BlockFinish("read", s, B, wire[s], last.requested)

BlockNext ==
    \/ BlockLogin /\ UNCHANGED << writerVars, readerVars, raiseVars, loginVars >>
    \/ BlockCreateSession /\ UNCHANGED << writerVars, readerVars, raiseVars, loginVars >>
    \/ BlockRequest /\ UNCHANGED << writerVars, readerVars, raiseVars, loginVars >>
    \/ BlockRequestFails /\ UNCHANGED << writerVars, readerVars, raiseVars, loginVars >>
    \/ BlockRead /\ UNCHANGED << writerVars, readerVars, raiseVars, loginVars >>

\* The messages of a session in isolation: ERROR and INFO tokens append to
\* them (process_msg), a DONE with the ERROR bit raises from them.
RaiseInit == dbexc = [messages |-> << >>, given |-> << >>, raised |-> "none",
                      text |-> << >>, number |-> 0]

ProcessMsg ==
    \E n \in MsgNos :
        /\ dbexc.raised = "none"
        /\ Len(dbexc.messages) < MaxRaiseLen
        /\ dbexc' = [dbexc EXCEPT !.messages = Append(@, n)]

RaiseDbException ==
    \E e \in {db_exception(dbexc.messages)} :
        /\ dbexc.raised = "none"
        /\ dbexc' = [messages |-> e.messages, given |-> dbexc.messages,
                     raised |-> e.exc, text |-> e.text, number |-> e.number]

RaiseNext ==
    \/ ProcessMsg /\ UNCHANGED << writerVars, readerVars, sessionVars, loginVars >>
    \/ RaiseDbException /\ UNCHANGED << writerVars, readerVars, sessionVars, loginVars >>

StateMachineNext ==
    SetStateCall /\ UNCHANGED << writerVars, readerVars, raiseVars, loginVars >>

(***************************************************************************)
(* _TdsSocket.login: PRELOGIN and the negotiation of encryption, LOGIN7,   *)
(* the login response.  The TLS layer (tls.establish_channel and           *)
(* tls.revert_to_clear) and the values of tds_base.PreLoginEnc are outside *)
(* the file; the model keeps of them which of the two channels the bytes   *)
(* of the session travel on.                                               *)
(***************************************************************************)
\* tds_base.PreLoginEnc: the values of the ENCRYPTION option
PreLoginEnc == {"OFF", "ON", "REQ", "NOT_SUP"}

\* The PRELOGIN replies of a server: the type of the packet, the ENCRYPTION
\* option (one of PreLoginEnc or a byte that is none of them) and the MARS
\* option.
PreloginReplies ==
    [ type : {REPLY, CANCEL}, enc : PreLoginEnc \cup {"OTHER"}, mars : BOOLEAN ]

\* The responses of a server to LOGIN7
LoginResponses ==
    { << LoginAck, Done({}) >> }
    \cup { << EnvChange(r), Done({}) >> : r \in Routes }
    \cup { << LoginAck, EnvChange(r), Done({}) >> : r \in Routes }
    \cup { << Msg("ERROR", 18456), Done({"ERROR"}) >>,
           << Done({}) >>,
           << Done({}), LoginAck, Done({}) >>,
           << LoginAck, Done({"MORE"}), Done({}) >>,
           << Tok("AUTH", {}), LoginAck, Done({}) >>,
           << LoginAckOld, Done({}) >>,
           << >>,
           << LoginAck >> }

\* The responses of a server to the "use <database>" of login()
UseResponses ==
    { << Done({}) >>, << Msg("ERROR", 911), Done({"ERROR"}) >> }

\* The run record login() starts from, or continues with after the server
\* has answered: that of a session operation, and the _TdsLogin
LoginRun ==
    [ sess |-> sess, conn |-> conn, wire |-> wire, exc |-> "none",
      cancels |-> 0, reads |-> 0, ends |-> {}, bad |-> FALSE,
      fault |-> NoFault, tok |-> Junk, wrote |-> FALSE, unread |-> 0,
      ret |-> "None", steps |-> << >>, entered |-> FALSE, login |-> login ]

\* What goes over the transport of the main session is logged with the
\* channel it travels on.
Event(R, ev) ==
    [R EXCEPT !.login.events = Append(@, [ev |-> ev, ch |-> R.login.channel])]

\* tls.establish_channel: the TLS handshake; from then on the session reads
\* and writes through TLS.
establish_channel(R) ==
    [Event(R, "establish") EXCEPT !.login.channel = "tls"]

\* tls.revert_to_clear: the session reads and writes the socket again.
revert_to_clear(R) ==
    [Event(R, "revert") EXCEPT !.login.channel = "clear"]

\* _TdsSession.bad_stream on the session login() works with, whose transport
\* is the socket itself
login_bad_stream(R) ==
    Raise([R EXCEPT !.conn.sock_closed = TRUE, !.bad = TRUE], "InterfaceError")

\* _TdsSession.parse_prelogin: the MARS option, server_enc_flag, and the
\* encryption the two flags lead to
parse_prelogin(R, reply) ==
    Only({ CASE reply.enc = "OFF" ->
                  IF P.login.enc_flag = "ON" THEN login_bad_stream(P)
                  ELSE establish_channel(P)
             [] reply.enc = "ON" -> establish_channel(P)
             [] reply.enc = "REQ" ->
                  IF P.login.enc_flag = "NOT_SUP" THEN Raise(P, "Error")
                  ELSE establish_channel(P)
             [] reply.enc = "NOT_SUP" ->
                  IF P.login.enc_flag = "ON" THEN Raise(P, "Error") ELSE P
             [] OTHER -> login_bad_stream(P) :
           P \in {[R EXCEPT !.conn.mars = reply.mars,
                            !.login.server_enc_flag = reply.enc]} })

\* _TdsSession.process_prelogin: the reply must be a packet of type REPLY
process_prelogin(R, reply) ==
    Only({ IF reply.type # REPLY THEN login_bad_stream(E)
           ELSE parse_prelogin(E, reply) :
             E \in {Event(R, "recv_prelogin")} })

\* _TdsSession.send_prelogin
send_prelogin(R) == Event(R, "send_prelogin")

\* _TdsSession.tds7_send_login: the handler of login.auth, if there is one,
\* becomes session.authentication
tds7_send_login(R) ==
    [Event(R, "send_login7") EXCEPT
        !.sess["main"].authentication = R.login.auth # "None"]

\* _TdsSession.process_login_tokens: read tokens up to the first DONE;
\* LOGINACK sets succeed, every other token goes to process_token.  ret is
\* the value returned.  The markers are read with reader.get_byte, without
\* get_token_id; when the next token does not arrive, _read_packet times out
\* waiting for a header, calls put_cancel and re-raises.
RECURSIVE process_login_tokens_loop(_, _)
process_login_tokens_loop(R, succeed) ==
    IF R.wire["main"] = << >>
    THEN Only({ IF C.exc # "none" THEN C ELSE Raise(C, "TimeoutError") :
                  C \in {put_cancel(R, "main", NoPlan)} })
    ELSE Only({ IF G.tok.k = "LOGINACK"
                THEN IF "PRE_TDS7" \in G.tok.flags THEN login_bad_stream(G)
                     ELSE process_login_tokens_loop(
                              IF G.sess["main"].authentication
                              THEN [G EXCEPT !.login.auth = "closed",
                                             !.sess["main"].authentication = FALSE]
                              ELSE G, TRUE)
                ELSE Only({ IF P.exc # "none" THEN P
                            ELSE IF G.tok.k = "DONE"
                            THEN [P EXCEPT !.ret = IF succeed THEN "True"
                                                   ELSE "False"]
                            ELSE process_login_tokens_loop(P, succeed) :
                              P \in {process_token(G, "main", NoPlan)} }) :
                  G \in {[R EXCEPT !.tok = Head(R.wire["main"]),
                                   !.wire["main"] = Tail(R.wire["main"]),
                                   !.reads = R.reads + 1]} })

\* A faulty variant of process_login_tokens: success is reported whenever
\* the loop ends.
process_login_tokens_succeed(R) ==
    Only({ IF T.exc # "none" THEN T ELSE [T EXCEPT !.ret = "True"] :
             T \in {process_login_tokens_loop(Event(R, "read_response"), FALSE)} })

process_login_tokens(R) ==
    process_login_tokens_loop(Event(R, "read_response"), FALSE)

\* login() up to the end of the PRELOGIN exchange, the server answering the
\* PRELOGIN with `reply`
login_prelogin(R, reply) ==
    Only({ IF ~R0.login.tds71 THEN R0
           ELSE process_prelogin(send_prelogin(R0), reply) :
             R0 \in {[R EXCEPT !.login.server_enc_flag = "NOT_SUP"]} })

\* A faulty variant of login_send: the channel is never reverted.
login_send_no_revert(R) == tds7_send_login(R)

\* login() from there to the end of LOGIN7: tds7_send_login, then back to the
\* clear channel if the server's flag was OFF
login_send(R) ==
    Only({ IF S.login.server_enc_flag = "OFF" THEN revert_to_clear(S) ELSE S :
             S \in {tds7_send_login(R)} })

\* The end of login() after a successful login with no route: with MARS a new
\* main session over SMP; connected; "use <database>" if one was asked for,
\* answered by `use`.
login_connected(R, use) ==
    Only({ IF ~C.login.database THEN C
           ELSE Only({ IF Q.exc # "none" THEN Q
                       ELSE process_simple_request(
                                ServerOnRequest(Event(Q, "send_query"),
                                                "main", use),
                                "main", NoPlan) :
                         Q \in {submit_plain_query(C, "main", NoPlan)} }) :
             C \in {[R EXCEPT !.sess["main"] =
                                  IF R.conn.mars THEN session_init ELSE @,
                              !.conn.is_connected = TRUE,
                              !.ret = "None"]} })

\* login() from the reading of the response to LOGIN7 on
login_tokens(R, use) ==
    Only({ IF T.exc # "none" THEN T
           ELSE IF T.ret # "True" THEN raise_db_exception(T, "main")
           ELSE IF T.conn.route # NoRoute THEN [T EXCEPT !.ret = "route"]
           ELSE login_connected(T, use) :
             T \in { Only({ [P EXCEPT !.login.succeed =
                                         IF P.exc # "none" THEN "raised" ELSE P.ret,
                                     !.login.nread = P.reads] :
                               P \in {process_login_tokens(R)} }) } })

\* The _TdsLogin a caller hands to login(), and a connection that is not
\* connected yet
LoginInit ==
    /\ \E e \in PreLoginEnc, t \in BOOLEAN, d \in BOOLEAN, a \in {"None", "open"} :
         login = [ enc_flag |-> e, tds71 |-> t, database |-> d, auth |-> a,
                   succeed |-> "None", nread |-> 0,
                   server_enc_flag |-> "NOT_SUP", channel |-> "clear",
                   events |-> << >>, pc |-> "start", exc |-> "none",
                   ret |-> NoRoute, reply |-> [type |-> REPLY, enc |-> "NOT_SUP",
                                               mars |-> FALSE],
                   resp |-> << >> ]
    /\ conn = [socket_init(FALSE) EXCEPT !.is_connected = FALSE]
    /\ sess = [s \in SessionIds |-> session_init]
    /\ wire = [s \in SessionIds |-> << >>]
    /\ last = LastInit

\* The step of login() ends with run record R at position pc.
LoginStep(R, pc) ==
    /\ sess' = R.sess
    /\ conn' = R.conn
    /\ wire' = R.wire
    /\ login' = [R.login EXCEPT
                   !.exc = R.exc,
                   !.pc = IF R.exc # "none" THEN "done" ELSE pc,
                   !.ret = IF R.exc = "none" /\ R.ret = "route"
                           THEN R.conn.route ELSE NoRoute]
    /\ UNCHANGED last

LoginPrelogin ==
    /\ login.pc = "start"
    /\ \E reply \in IF login.tds71 THEN PreloginReplies ELSE {login.reply} :
         \E R \in {login_prelogin([LoginRun EXCEPT !.login.reply = reply], reply)} :
             LoginStep(R, "prelogin_done")

LoginSend ==
    /\ login.pc = "prelogin_done"
    /\ \E resp \in LoginResponses :
         \E R \in {login_send(LoginRun)} :
             LoginStep([ServerOnRequest(R, "main", resp)
                            EXCEPT !.login.resp = resp], "login_sent")

LoginTokens ==
    /\ login.pc = "login_sent"
    /\ \E use \in IF login.database THEN UseResponses ELSE {<< >>} :
         \E R \in {login_tokens(LoginRun, use)} :
             LoginStep(R, "done")

LoginNext ==
    \/ LoginPrelogin /\ UNCHANGED << writerVars, readerVars, raiseVars >>
    \/ LoginSend /\ UNCHANGED << writerVars, readerVars, raiseVars >>
    \/ LoginTokens /\ UNCHANGED << writerVars, readerVars, raiseVars >>

(***************************************************************************)
(*                            Specifications                               *)
(***************************************************************************)
\* The components a specification does not move
WriterIdle ==
    /\ writer = writer_init(WriterBufSize)
    /\ wlog = [phase |-> "closed", data |-> << >>, type |-> 0]

ReaderIdle ==
    /\ reader = reader_init(ReaderBufSize)
    /\ net = [arrived |-> << >>, closed |-> FALSE, pending |-> << >>]
    /\ rlog = << >>

SessionIdle ==
    /\ sess = << >>
    /\ conn = << >>
    /\ wire = << >>
    /\ last = << >>

RaiseIdle == dbexc = << >>

LoginIdle == login = << >>

SpecWriterInit == WriterInit /\ ReaderIdle /\ SessionIdle /\ RaiseIdle /\ LoginIdle

SpecWriter == SpecWriterInit /\ [][WriterNext]_vars

SpecReaderInit == ReaderInit /\ WriterIdle /\ SessionIdle /\ RaiseIdle /\ LoginIdle

SpecReader == SpecReaderInit /\ [][ReaderNext]_vars

SpecInit == SessionInit /\ WriterIdle /\ ReaderIdle /\ RaiseIdle /\ LoginIdle

Spec == SpecInit /\ [][SessionNext]_vars

SpecSubmit == SpecInit /\ [][SubmitNext]_vars

SpecRaiseInit ==
    RaiseInit /\ WriterIdle /\ ReaderIdle /\ SessionIdle /\ LoginIdle

SpecRaise == SpecRaiseInit /\ [][RaiseNext]_vars

SpecCursorInit ==
    CursorInit /\ WriterIdle /\ ReaderIdle /\ RaiseIdle /\ LoginIdle

SpecCursor == SpecCursorInit /\ [][CursorNext]_vars

SpecTranInit ==
    TranInit /\ WriterIdle /\ ReaderIdle /\ RaiseIdle /\ LoginIdle

SpecTran == SpecTranInit /\ [][TranNext]_vars

SpecCryptInit ==
    CryptInit /\ WriterIdle /\ ReaderIdle /\ SessionIdle /\ RaiseIdle

SpecCrypt == SpecCryptInit /\ [][CryptNext]_vars

SpecCancelInit ==
    CancelInit /\ WriterInit /\ ReaderIdle /\ RaiseIdle /\ LoginIdle

SpecCancel == SpecCancelInit /\ [][CancelNext]_vars

SpecLifetimeInit ==
    LifetimeInit /\ ReaderIdle /\ SessionIdle /\ RaiseIdle /\ LoginIdle

SpecLifetime == SpecLifetimeInit /\ [][LifetimeNext]_vars

SpecBlockInit ==
    BlockInit /\ WriterIdle /\ ReaderIdle /\ RaiseIdle /\ LoginIdle

SpecBlock == SpecBlockInit /\ [][BlockNext]_vars

SpecLogin7Init ==
    Login7Init /\ WriterIdle /\ ReaderIdle /\ SessionIdle /\ RaiseIdle

SpecLogin7 == SpecLogin7Init /\ [][Login7Next]_vars

SpecPreloginInit ==
    PreloginInit /\ WriterIdle /\ ReaderIdle /\ SessionIdle /\ RaiseIdle

SpecPrelogin == SpecPreloginInit /\ [][PreloginNext]_vars

SpecLoginInit == LoginInit /\ WriterIdle /\ ReaderIdle /\ RaiseIdle

SpecLogin == SpecLoginInit /\ [][LoginNext]_vars

SpecStateMachineInit ==
    /\ conn = socket_init(TRUE)
    /\ sess = [s \in SessionIds |-> session_init]
    /\ wire = [s \in SessionIds |-> << >>]
    /\ last = LastInit
    /\ WriterIdle
    /\ ReaderIdle
    /\ RaiseIdle
    /\ LoginIdle

SpecStateMachine == SpecStateMachineInit /\ [][StateMachineNext]_vars

(***************************************************************************)
(*                              Properties                                 *)
(***************************************************************************)

\* C1: set_state(new) on a session in state old succeeds, and the state
\* becomes new, exactly when new = old, or new = PENDING and old is QUERYING
\* or READING, or new = READING and old = PENDING, or new = IDLE and old is
\* not DEAD, or new = DEAD, or new = QUERYING and old = IDLE; every other
\* request raises InterfaceError and leaves the state unchanged; a DEAD
\* session stays DEAD.
C1_SetStateTransitions ==
    last.op = "set_state" =>
        LET old == last.prior
            new == last.req
            now == sess[last.s].state
            legal == \/ new = old
                     \/ new = "PENDING" /\ old \in {"QUERYING", "READING"}
                     \/ new = "READING" /\ old = "PENDING"
                     \/ new = "IDLE" /\ old # "DEAD"
                     \/ new = "DEAD"
                     \/ new = "QUERYING" /\ old = "IDLE"
        IN  /\ legal => last.exc = "none" /\ now = new
            /\ ~legal => last.exc = "InterfaceError" /\ now = old
            /\ old = "DEAD" => now = "DEAD"

\* C1 witness: a DEAD session was asked to become IDLE and refused.
C1_Witness ==
    /\ last.op = "set_state"
    /\ last.prior = "DEAD"
    /\ last.req = "IDLE"
    /\ last.exc = "InterfaceError"
    /\ sess[last.s].state = "DEAD"

\* C2: no byte of a new request is written while tokens of the previous
\* response are unread, and a submit issued on a PENDING or READING session
\* (with no cancel already in flight and a usable transport) first sends
\* CANCEL and, when it returns normally, has read the previous response.
C2_SubmitAfterResponseConsumed ==
    last.op \in {"submit_plain_query", "submit_bulk"} =>
        /\ last.wrote => last.unread = 0
        /\ (last.prior \in {"PENDING", "READING"} /\ ~last.prior_ic
                /\ last.exc # "OSError") => last.cancels > 0
        /\ (last.prior \in {"PENDING", "READING"} /\ last.exc = "none")
              => last.reads > 0 /\ last.wrote

\* C3: when cancel_if_pending returns normally on a session that was PENDING
\* or READING the session is IDLE with in_cancel false; on an IDLE session it
\* sends nothing and reads nothing.
C3_CancelIfPending ==
    (last.op = "cancel_if_pending" /\ last.exc = "none") =>
        /\ last.prior \in {"PENDING", "READING"} =>
              /\ sess[last.s].state = "IDLE"
              /\ ~sess[last.s].in_cancel
        /\ last.prior = "IDLE" =>
              /\ last.cancels = 0
              /\ last.reads = 0
              /\ last.fault = NoFault
              /\ sess[last.s].state = "IDLE"

\* C3 witness: cancel_if_pending on a READING session sent one CANCEL and read
\* the rest of the response and the acknowledgement.
C3_Witness ==
    /\ last.op = "cancel_if_pending"
    /\ last.exc = "none"
    /\ last.prior = "READING"
    /\ last.cancels = 1
    /\ last.reads >= 2
    /\ sess[last.s].state = "IDLE"

\* C4: after the handler of a DONE token with MORE unset finishes, normally
\* or by raising a database error, with no cancel in flight when it started,
\* the session is IDLE.
C4_DoneReturnsToIdle ==
    \A e \in last.ends :
        ("MORE" \notin e.flags /\ ~e.ic
            /\ e.exc \in {"none", "DatabaseError", "Error"}) => e.state = "IDLE"

\* C4 witness: a DONE with the ERROR bit raised a database error and left the
\* session IDLE.
C4_Witness ==
    \E e \in last.ends :
        /\ "ERROR" \in e.flags
        /\ "MORE" \notin e.flags
        /\ ~e.ic
        /\ e.exc = "DatabaseError"
        /\ e.state = "IDLE"

\* C5: the packets sent for begin_packet(t), write(d1), ..., write(dk),
\* flush(): their payloads concatenated are d1..dk, every packet carries type
\* t and its own length, only the last has the final bit, and every packet
\* before the last is exactly WriterBufSize bytes long.
C5_WriterFraming ==
    LET out == writer.out
        np == Len(out)
        payload(i) == SubSeq(out[i], HeaderSize + 1, Len(out[i]))
    IN  /\ \A i \in 1..np :
              /\ Len(out[i]) >= HeaderSize
              /\ header_unpack(out[i]).type = wlog.type
              /\ header_unpack(out[i]).size = Len(out[i])
              /\ (header_unpack(out[i]).status = 1)
                    <=> (wlog.phase = "closed" /\ i = np)
              /\ (wlog.phase = "open" \/ i < np) => Len(out[i]) = WriterBufSize
        /\ wlog.phase = "closed" =>
              Flatten([i \in 1..np |-> payload(i)]) = wlog.data
        /\ wlog.phase = "open" =>
              Flatten([i \in 1..np |-> payload(i)])
                 \o SubSeq(writer.buf, HeaderSize + 1, writer.pos) = wlog.data

\* C5 witness: a message of MaxMessageLen bytes went out in three packets.
C5_Witness ==
    /\ wlog.phase = "closed"
    /\ Len(wlog.data) = MaxMessageLen
    /\ Len(writer.out) >= 3

\* C6: whatever the fragmentation and the partial transport reads, the bytes
\* returned by successive recv / read_fast calls are the packet payloads in
\* order (no header byte, nothing skipped or repeated), one call never returns
\* bytes of two packets, and once everything sent has been read the bytes
\* returned are the whole message.
C6_ReaderPayload ==
    rlog.faults = 0 =>
        /\ Len(rlog.got) <= Len(rlog.truth)
        /\ rlog.got = SubSeq(rlog.truth, 1, Len(rlog.got))
        /\ \A i, j \in 1..Len(rlog.ret) :
              (rlog.ret[i] - 100) \div 10 = (rlog.ret[j] - 100) \div 10
        /\ (net.pending = << >> /\ net.arrived = << >> /\ ~net.closed
               /\ reader.pos >= reader.size) => rlog.got = rlog.truth

\* C6 witness: a message of two packets, read from the transport in pieces
\* smaller than a header, has been returned completely.
C6_Witness ==
    /\ rlog.faults = 0
    /\ rlog.partial
    /\ rlog.got = rlog.truth
    /\ Len(rlog.truth) > ReaderBufSize - HeaderSize

\* C7: when a transport read times out while the session waits for the next
\* token, the caller gets the timeout, the session is PENDING with in_cancel
\* set and its transport open; and a DONE with CANCELLED read afterwards
\* leaves the session IDLE with in_cancel cleared.
C7_TimeoutLeavesCancelInFlight ==
    /\ (last.exc = "TimeoutError" /\ last.fault.where = "marker") =>
          /\ sess[last.s].state = "PENDING"
          /\ sess[last.s].in_cancel
          /\ ~TransportClosed([sess |-> sess, conn |-> conn], last.s)
    /\ \A e \in last.ends :
          ("CANCELLED" \in e.flags /\ e.exc = "none") =>
              e.state = "IDLE" /\ ~e.in_cancel

\* C8: a transport read that times out inside read_packet, in the header or
\* in the body, sends a CANCEL packet before the timeout reaches the caller.
C8_TimeoutSendsCancel ==
    rlog.exc = "TimeoutError" => rlog.cancel

\* C9: a transport read that returns zero bytes while a session reads a
\* response raises ClosedConnectionError and leaves that session DEAD.
C9_ZeroReadKillsSession ==
    last.fault.kind = "closed" =>
        /\ last.exc = "ClosedConnectionError"
        /\ sess[last.s].state = "DEAD"

\* C10: a marker without a handler, or a malformed stream reported through
\* bad_stream, raises InterfaceError, closes the transport and leaves the
\* session DEAD.
C10_BadStreamKillsSession ==
    last.bad =>
        /\ last.exc = "InterfaceError"
        /\ TransportClosed([sess |-> sess, conn |-> conn], last.s)
        /\ sess[last.s].state = "DEAD"


\* The operations that are submit methods
SubmitOps == {"submit_plain_query", "submit_rpc", "submit_begin_tran", "submit_bulk"}

\* C11: every submit method that gets as far as its querying context has
\* cleared messages, then output_params, then called cancel_if_pending, and
\* only then entered the querying context.
C11_SubmitSkeleton ==
    (last.op \in SubmitOps /\ last.entered) =>
        last.steps = << "messages", "output_params", "cancel_if_pending",
                        "querying_context" >>

\* C12: a submit that entered its querying context and returned normally has
\* left the session PENDING with the final packet flushed; one that entered it
\* and raised has left the session IDLE unless it is DEAD.
C12_QueryingContextExit ==
    (last.op \in SubmitOps /\ last.entered) =>
        IF last.exc = "none"
        THEN sess[last.s].state = "PENDING" /\ last.wrote
        ELSE sess[last.s].state \in {"IDLE", "DEAD"}

\* C13: every DONE with the ERROR bit that was processed with no cancel in
\* progress raised a database exception; every DONE processed with in_cancel
\* set or carrying CANCELLED raised nothing; and a database exception comes
\* from the processing of a DONE only, never from an ERROR or INFO token.
C13_DoneErrorRaises ==
    /\ \A e \in last.ends :
         /\ ("ERROR" \in e.flags /\ ~e.ic /\ "CANCELLED" \notin e.flags)
               => e.exc \in {"DatabaseError", "Error"}
         /\ (e.ic \/ "CANCELLED" \in e.flags) => e.exc = "none"
    /\ last.exc \in {"DatabaseError", "Error", "IndexError"}
          => \E e \in last.ends : e.exc = last.exc

\* The messages of a list that are not message 3621
Without3621(msgs) == SelectSeq(msgs, LAMBDA m : m # 3621)

\* C14: from every non-empty list of messages raise_db_exception raises a
\* database exception whose text joins the messages other than 3621 and whose
\* class is decided by the msgno of the last of them.
C14_RaiseDbException ==
    (dbexc.raised # "none" /\ dbexc.given # << >>) =>
        /\ dbexc.raised \in DbCategories
        /\ dbexc.text = Without3621(dbexc.given)
        /\ Without3621(dbexc.given) # << >> =>
              dbexc.raised =
                  create_exception_by_message(
                      Without3621(dbexc.given)[Len(Without3621(dbexc.given))],
                      << >>).exc

\* C15: a database exception raised from the processing of a DONE leaves the
\* session not DEAD and its transport open, and the next submit on the
\* session (no transport fault before or during it) returns normally and
\* leaves the session PENDING.
C15_SubmitAfterDbError ==
    /\ [](last.exc = "DatabaseError" =>
            /\ sess[last.s].state # "DEAD"
            /\ ~TransportClosed([sess |-> sess, conn |-> conn], last.s))
    /\ [][(last.exc = "DatabaseError" /\ last'.op \in SubmitOps
              /\ last'.faults = 0)
            => (last'.exc = "none" /\ sess'[last'.s].state = "PENDING")]_vars

\* What login() has done so far
Established == \E i \in 1..Len(login.events) : login.events[i].ev = "establish"
Reverted == \E i \in 1..Len(login.events) : login.events[i].ev = "revert"
Login7Sent == \E i \in 1..Len(login.events) : login.events[i].ev = "send_login7"

\* The PRELOGIN exchange of a TDS 7.1+ login is over, with a well-formed reply
PreloginOver ==
    login.pc # "start" /\ login.tds71 /\ login.reply.type = REPLY

\* login() raised in the PRELOGIN exchange, before any byte of LOGIN7
PreloginError == login.pc = "done" /\ login.exc # "none" /\ ~Login7Sent

\* TLS for the login packet only: established, and once LOGIN7 is out the
\* channel is clear again
LoginOnlyTls ==
    /\ ~PreloginError
    /\ Established
    /\ Login7Sent => (Reverted /\ login.channel = "clear")

\* TLS for the entire channel: established and never reverted
EntireChannelTls ==
    ~PreloginError /\ Established /\ ~Reverted /\ login.channel = "tls"

\* No TLS, the login goes on in plaintext
NoTls == ~PreloginError /\ ~Established /\ login.channel = "clear"

\* C16: the server's reply carries ENCRYPTION = OFF: client OFF or REQ gives
\* TLS for the login packet only, client ON an error, client NOT_SUP no TLS
\* at all.
C16_ServerOff ==
    (PreloginOver /\ login.reply.enc = "OFF") =>
        CASE login.enc_flag \in {"OFF", "REQ"} -> LoginOnlyTls
          [] login.enc_flag = "ON" -> PreloginError /\ ~Established
          [] OTHER -> NoTls

\* C17: the server's reply carries ENCRYPTION = ON or REQ: client OFF, ON or
\* REQ gives TLS for the entire channel, client NOT_SUP an error and no TLS.
C17_ServerOnOrReq ==
    (PreloginOver /\ login.reply.enc \in {"ON", "REQ"}) =>
        IF login.enc_flag = "NOT_SUP" THEN PreloginError /\ ~Established
        ELSE EntireChannelTls

\* C18: the server's reply carries ENCRYPTION = NOT_SUP: client OFF, ON or
\* REQ gives an error, client NOT_SUP no TLS and a login in plaintext.
C18_ServerNotSup ==
    (PreloginOver /\ login.reply.enc = "NOT_SUP") =>
        IF login.enc_flag = "NOT_SUP" THEN NoTls
        ELSE PreloginError /\ ~Established

\* The position of the first event ev in the log of login(), 0 if there is none
FirstEvent(ev) ==
    IF \E i \in 1..Len(login.events) : login.events[i].ev = ev
    THEN CHOOSE i \in 1..Len(login.events) :
             /\ login.events[i].ev = ev
             /\ \A j \in 1..(i - 1) : login.events[j].ev # ev
    ELSE 0

\* C19: when TLS is for the login packet only (server flag OFF), TLS is
\* established after the PRELOGIN reply and before LOGIN7, LOGIN7 goes over
\* TLS, and the channel is clear again before the login response is read;
\* when TLS is for the entire channel (server flag ON or REQ) the channel is
\* never reverted and LOGIN7 and the response go over TLS.
C19_LoginOnlyOrder ==
    Established =>
        /\ FirstEvent("recv_prelogin") < FirstEvent("establish")
        /\ \A i \in 1..Len(login.events) :
             /\ login.events[i].ev = "send_login7" =>
                   FirstEvent("establish") < i /\ login.events[i].ch = "tls"
             /\ login.events[i].ev = "revert" =>
                   /\ login.server_enc_flag = "OFF"
                   /\ FirstEvent("send_login7") \in 1..(i - 1)
             /\ IF login.server_enc_flag = "OFF"
                THEN login.events[i].ev = "read_response" =>
                        /\ FirstEvent("revert") \in 1..(i - 1)
                        /\ login.events[i].ch = "clear"
                ELSE /\ login.events[i].ev # "revert"
                     /\ login.events[i].ev \in {"read_response", "send_query"}
                           => login.events[i].ch = "tls"

\* C19 witness: a login whose LOGIN7 went over TLS and whose response was read
\* from the clear channel.
C19_Witness ==
    /\ login.pc = "done"
    /\ login.exc = "none"
    /\ login.server_enc_flag = "OFF"
    /\ [ev |-> "send_login7", ch |-> "tls"]
          = login.events[FirstEvent("send_login7")]
    /\ FirstEvent("revert") = FirstEvent("send_login7") + 1
    /\ [ev |-> "read_response", ch |-> "clear"]
          = login.events[FirstEvent("revert") + 1]

\* C20: when the response to LOGIN7 is an ENVCHANGE with a route followed by
\* a DONE without MORE, login() returns that route, connection.route is that
\* route, and nothing was sent after LOGIN7.
C20_RouteReturned ==
    \A r \in Routes :
        (login.pc = "done" /\ login.resp = << EnvChange(r), Done({}) >>) =>
            /\ login.exc = "none"
            /\ login.ret = r
            /\ conn.route = r
            /\ login.events[Len(login.events)].ev = "read_response"

\* The position of the first DONE token of the response to LOGIN7
FirstDone ==
    CHOOSE i \in 1..Len(login.resp) :
        /\ login.resp[i].k = "DONE"
        /\ \A j \in 1..(i - 1) : login.resp[j].k # "DONE"

FetchRun(n) ==
    /\ last.trail # << >>
    /\ last.trail[1].op = "execute"
    /\ last.trail[1].exc = "none"
    /\ last.resp = RowsResponse(n)
    /\ \A i \in 2..Len(last.trail) : last.trail[i].op = "fetchone"

\* C22: after execute is answered with COLMETADATA, n ROW tokens and a final
\* DONE with COUNT and the row count n, the first n fetchone calls return the
\* rows in order, the next one returns None and leaves rows_affected = n and
\* the session IDLE, and every further fetchone returns None without reading
\* from the transport.
C22_FetchOneSequence ==
    \A n \in 0..MaxRows :
        FetchRun(n) =>
            \A i \in 2..Len(last.trail) :
                LET call == last.trail[i]
                IN  /\ call.exc = "none"
                    /\ i - 1 <= n => call.ret = last.resp[i].val
                    /\ i - 1 > n =>
                          /\ call.ret = "None"
                          /\ call.after.rows_affected = n
                          /\ call.after.state = "IDLE"
                    /\ i - 1 > n + 1 => call.reads = 0 /\ call.after = call.before

\* A row has been fetched, the fetchone after the last row has returned None,
\* and one more fetchone has been made
C22_Witness ==
    /\ FetchRun(1)
    /\ Len(last.trail) = 4
    /\ last.trail[2].ret = RowValue(1)
    /\ last.trail[3].ret = "None"
    /\ last.trail[4].reads = 0


\* C23: get_proc_return_status returns the integer of the last RETURNSTATUS
\* token when one was received; when none was returned or no stored procedure
\* was executed (also when the response has already been consumed to its
\* final DONE) it returns None, without raising and without changing the
\* state of the session.
C23_ProcReturnStatus ==
    \A j \in 1..Len(last.trail) :
        LET call == last.trail[j]
        IN  call.op = "get_proc_return_status" =>
                /\ call.exc = "none"
                /\ IF call.after.has_status
                   THEN call.ret = call.after.ret_status
                   ELSE call.ret = "None" /\ call.after.state = call.before.state

\* C24: a RETURNVALUE token for ordinal k stores its value in
\* output_params[k], and get_proc_outputs, called after the result sets are
\* processed, returns the list of the OUTPUT parameter values without raising,
\* whatever positions the by-reference parameters have.
C24_ProcOutputs ==
    \A byref \in SUBSET (0..(MaxParams - 1)), status \in BOOLEAN :
        ( /\ last.trail # << >>
          /\ last.trail[1].op = "callproc"
          /\ last.trail[1].exc = "none"
          /\ last.resp = ProcResponse(byref, status) ) =>
            /\ LET items == last.trail[1].after.output_params
               IN  /\ {items[i].key : i \in 1..Len(items)} = byref
                   /\ \A i \in 1..Len(items) : items[i].value = "out"
            /\ \A j \in 2..Len(last.trail) :
                  last.trail[j].op = "get_proc_outputs" =>
                      /\ last.trail[j].exc = "none"
                      /\ last.trail[j].outs =
                            [i \in 1..Cardinality(byref) |-> "out"]

\* C25: commit() and rollback() read the response with the socket timeout
\* removed and put the prior timeout back when they return and when the read
\* raises; the request, with the drain of a cancelled earlier response, goes
\* out under the prior timeout.
C25_CommitTimeout ==
    last.op = "commit" =>
        /\ conn.timeout = last.before.timeout
        /\ \A i \in 1..Len(last.io) :
              IF \E j \in 1..(i - 1) : last.io[j].what = "flush"
              THEN last.io[i].what = "read" /\ last.io[i].timeout = "None"
              ELSE last.io[i].timeout = last.before.timeout

\* A commit that cancelled and drained a pending response, sent its request,
\* and raised while it read the response
C25_Witness ==
    /\ last.op = "commit"
    /\ last.exc = "DatabaseError"
    /\ \E i, j, k \in 1..Len(last.io) :
          /\ i < j /\ j < k
          /\ last.io[i].what = "cancel"
          /\ last.io[j].what = "flush"
          /\ last.io[k].what = "read"

\* The call last made sent a request under TDS 7.2 or higher
RequestSent ==
    /\ conn.tds72
    /\ last.op \in {"submit_plain_query", "submit_rpc", "submit_bulk",
                    "begin_tran", "commit"}
    /\ last.tokens # << >>

\* After a begin, commit or rollback whose response was read to its end, the
\* descriptor of the connection is the one of the BEGINTRANS ENVCHANGE, 0
\* after a COMMITTRANS or ROLLBACKTRANS ENVCHANGE, and unchanged otherwise
TranEnvChange ==
    (RequestSent /\ last.exc = "none" /\ last.op \in {"begin_tran", "commit"}) =>
        conn.tds72_transaction =
            IF "BEGINTRANS" \in last.tokens[1].flags THEN last.tokens[1].num
            ELSE IF last.tokens[1].k = "ENVCHANGE" THEN 0
            ELSE last.before.tds72_transaction

\* C30: from a BEGINTRANS ENVCHANGE with descriptor d until a COMMITTRANS or
\* ROLLBACKTRANS ENVCHANGE, every request of TDS 7.2 or higher other than
\* PRELOGIN, LOGIN7 and CANCEL (QUERY, RPC, TRANS, BULK) starts with the
\* all-headers block carrying d, and after the commit or rollback ENVCHANGE
\* with the block carrying 0: the ENVCHANGE tokens set the descriptor of the
\* connection, and each request starts with the block carrying it.
C30_AllHeaders ==
    /\ RequestSent => last.hdr = << last.before.tds72_transaction >>
    /\ TranEnvChange

\* C30 as amended: the same for QUERY, RPC and TRANS requests; a BULK request
\* carries no all-headers block.
C30_AllHeadersAmended ==
    /\ RequestSent =>
          last.hdr = IF last.op = "submit_bulk" THEN << >>
                     ELSE << last.before.tds72_transaction >>
    /\ TranEnvChange

\* An RPC request sent inside the transaction with descriptor 5
C30_Witness ==
    /\ RequestSent
    /\ last.op = "submit_rpc"
    /\ last.before.tds72_transaction = 5
    /\ last.hdr = << 5 >>


\* The nibbles of a byte exchanged, and bit p (a power of two) of x inverted
SwapNibbles(b) == (b % 16) * 16 + (b \div 16)
FlipBit(x, p) == IF (x \div p) % 2 = 1 THEN x - p ELSE x + p

\* x XOR 0xA5: the bits 0, 2, 5 and 7 inverted
XorA5(x) == FlipBit(FlipBit(FlipBit(FlipBit(x, 1), 4), 32), 128)

\* C26: the password obfuscation maps every byte b of the encoded password to
\* its nibbles exchanged XOR 0xA5, a value in 0..255; XOR 0xA5 followed by the
\* exchange of the nibbles gives b back; the length does not change.
C26_CryptPass ==
    login.calls = 1 =>
        LET encoded == ucs2_encode(login.password)
        IN  /\ Len(login.crypted) = Len(encoded)
            /\ Len(encoded) = 2 * Len(login.password)
            /\ \A i \in 1..Len(encoded) :
                  /\ login.crypted[i] = XorA5(SwapNibbles(encoded[i]))
                  /\ login.crypted[i] \in 0..255
                  /\ SwapNibbles(XorA5(login.crypted[i])) = encoded[i]

\* A password whose low byte has both nibbles set and differing (0xE1), which
\* the mangling turns into 0x1E XOR 0xA5 = 0xBB
C26_Witness ==
    /\ login.calls = 1
    /\ Len(login.password) = 1
    /\ login.password[1] % 256 = 225
    /\ login.crypted[1] = 187

\* C27: a ROW or NBCROW token that arrives while the session has no result
\* descriptor is a malformed stream (bad_stream: the transport is closed and
\* InterfaceError raised) in the token loop that dispatches it; here the loop
\* of execute (find_result_or_done) and of callproc (process_rpc), answered
\* with a row as the first token.
C27_RowWithoutDescriptor ==
    ( /\ last.trail # << >>
      /\ last.resp # << >>
      /\ last.resp[1].k \in {"ROW", "NBCROW"}
      /\ last.trail[1].reads >= 1 ) =>
        /\ last.trail[1].exc = "InterfaceError"
        /\ last.trail[1].bad

\* C28: while in_cancel is set, the drain ends at the first DONE that has
\* CANCELLED set or has MORE unset: that DONE clears in_cancel and returns the
\* session to IDLE.
C28_CancelDrain ==
    \A e \in last.ends :
        (e.ic /\ ("CANCELLED" \in e.flags \/ "MORE" \notin e.flags)) =>
            ~e.in_cancel /\ e.state = "IDLE"

\* C28 as amended: while in_cancel is set, the drain ends at the first DONE
\* that has CANCELLED set: that DONE clears in_cancel and returns the session
\* to IDLE; a DONE without CANCELLED leaves in_cancel set and the session
\* READING, also when its MORE bit is unset.
C28_CancelDrainAmended ==
    /\ \A e \in last.ends :
          e.ic => IF "CANCELLED" \in e.flags
                  THEN ~e.in_cancel /\ e.state = "IDLE"
                  ELSE e.in_cancel /\ e.state = "READING"
    /\ (last.op = "cancel_if_pending" /\ last.exc = "none"
            /\ last.prior # "IDLE") =>
          Cardinality({e \in last.ends : e.ic /\ "CANCELLED" \in e.flags}) = 1

\* A drain that read a final DONE without CANCELLED, went on, and ended at
\* the DONE with CANCELLED
C28_Witness ==
    /\ last.op = "cancel_if_pending"
    /\ last.exc = "none"
    /\ \E e \in last.ends : e.ic /\ e.flags = {} /\ e.in_cancel
    /\ \E e \in last.ends :
          e.ic /\ "CANCELLED" \in e.flags /\ ~e.in_cancel /\ e.state = "IDLE"

PacketNoOf(i) == header_unpack(writer.out[i]).packet_no

\* C32: the i-th packet a writer hands to the transport over its lifetime
\* (counting from 0, across messages and packet types, CANCEL included)
\* carries packet number i mod 256, and the writer's counter is the number of
\* packets handed over so far mod 256: begin_packet does not reset it.
C32_LifetimePacketNo ==
    /\ \A i \in 1..Len(writer.out) : PacketNoOf(i) = (wlog.sent + i - 1) % 256
    /\ writer.packet_no = SentSoFar % 256

\* The 257th packet of a writer is a CANCEL packet and carries number 0.
C32_Witness ==
    /\ wlog.type = CANCEL
    /\ wlog.sent = 256
    /\ Len(writer.out) = 1
    /\ PacketNoOf(1) = 0

\* Within one message the packet numbers go up by one mod 256.
MonotonicInMessage ==
    \A i \in 1..(Len(writer.out) - 1) : PacketNoOf(i + 1) = (PacketNoOf(i) + 1) % 256

PackSizes(resp) == { i \in 1..Len(resp) : resp[i].k = "PACKSIZE" }

C34_HeaderLength ==
    \A i \in 1..Len(last.packets) :
       /\ last.packets[i].length = last.packets[i].bytes
       /\ HeaderSize <= last.packets[i].length
       /\ last.packets[i].length <= last.packets[i].bufsize

\* A login whose response changed the block size and then asked for an SSPI
\* reply: PRELOGIN, two LOGIN7 packets and the reply, the last one under the
\* new block size.
C34_Witness ==
    /\ last.op = "login"
    /\ Len(last.packets) = 4
    /\ last.resizes # << >>
    /\ last.resizes[1].after # last.resizes[1].before
    /\ last.packets[4].bufsize # last.packets[3].bufsize
    /\ last.packets[4].length > HeaderSize

\* The block size login negotiates: the last accepted packet-size ENVCHANGE
\* of the login response, or the requested size
Negotiated(resp, requested) ==
    LET ok == { i \in PackSizes(resp) : resp[i].val >= MinBlockSize } IN
    IF ok = {} THEN requested
    ELSE resp[CHOOSE i \in ok : \A j \in ok : j <= i].val

\* C38: after login() returned without a route, reader and writer of the
\* main session have the negotiated block size, with MARS too, and so has a
\* session made by create_session.
C38_BlockSizeAfterLogin ==
    /\ (last.op = "login" /\ last.exc = "none" /\ ~conn.route) =>
          /\ sess["main"].rsize = Len(sess["main"].w.buf)
          /\ Len(sess["main"].w.buf) = Negotiated(last.resp, last.requested)
    /\ last.op = "create_session" =>
          sess["aux"].rsize = Len(sess["aux"].w.buf)

\* C35: whenever the next recv or read_fast will call _read_packet (the
\* current packet is used up), the transport's read pointer is at a packet
\* boundary, also after a _read_packet that a timeout interrupted.
C35_ReadPacketAtBoundary ==
    reader.pos >= reader.size => rlog.consumed \in rlog.starts

\* C36: with MARS an operation on one session leaves the state and the
\* in_cancel flag of the other session as they were; a read that fails on
\* the second session does not change the state of the main session.
C36_SessionsIndependent ==
    (conn.mars /\ last.op # "init" /\ last.s # "main") =>
        /\ sess["main"].state = last.prior_main
        /\ ~sess["main"].in_cancel

\* C37: in every state between operations, login() included, a session with
\* in_cancel set is not IDLE.
C37_InCancelNotIdle ==
    login.pc = "done" =>
        \A s \in SessionIds : sess[s].in_cancel => sess[s].state # "IDLE"

\* The places of the payload at which bytes of the given part are written
\* (0 is the first byte of the payload)
WrittenAt(field) ==
    { i - 1 : i \in { j \in 1..Len(login.payload) : login.payload[j].f = field } }

\* C39: the total-length field of LOGIN7 is the number of payload bytes
\* written, and every entry of the pointer table designates exactly the place
\* and the size at which its field is written.
C39_Login7Layout ==
    login.sent =>
        /\ login.packet_size = Len(login.payload)
        /\ \A i \in 1..Len(login.table) :
              WrittenAt(login.table[i].field) =
                 { login.table[i].off + k :
                     k \in 0..(login.table[i].len * login.table[i].width - 1) }

\* C40: for every byte string given as a PRELOGIN reply, parse_prelogin either
\* reaches the terminator, having read every option record and option value
\* inside the reply, or ends through bad_stream with an InterfaceError; it
\* never reads beyond the end of the reply.
C40_PreloginInBounds ==
    login.done =>
        \/ login.parsed
        \/ login.exc = "InterfaceError" /\ login.closed

====
